---- MODULE Spec2Model ----
(***************************************************************************)
(* A model of the ingestion-indexing engine of auto_arxiv: the SQLite      *)
(* metadata store (hrag/metadata_db.py), the FAISS vector index            *)
(* (hrag/vector_db.py), the per-paper batched embedding pipeline           *)
(* (hrag/hrag_manager.py), the list ingestion workflow                     *)
(* (workflows/ingestion_flow.py, workflows/daily_flow.py), the two-phase   *)
(* category merge executor (api/main.py) and the merge proposal generator  *)
(* (agents/ingestion_agent.py).                                            *)
(***************************************************************************)
EXTENDS Integers, Sequences, FiniteSets, TLC

\* ---------------------------------------------------------------- bounds
\* longest [summary] + text chunks list of one paper
MaxTexts == 3
\* EMBEDDING_BATCH_SIZE of the run (configurable; small so that a paper has several batches)
BatchSize == 2
\* longest confirmed_merges list of a merge request
MaxMerges == 2
\* Paper rows (each with one VectorMetadata row) in the store a merge request finds
NumMergePapers == 3
\* calls of process_papers_list in one behaviour
MaxRuns == 2
\* process restarts in one behaviour
MaxRestarts == 1
\* longest list of papers handed to process_papers_list
MaxList == 2
\* the same, for each of two concurrent requests
MaxListConc == 1
\* largest DAILY_PAPER_PROCESS_LIMIT of a run (configurable, 20 by default)
MaxLimit == 2

\* SQL NULL of a nullable column
NULL == -1
\* Python None returned by a helper that swallowed a storage error
None == -2

\* the request threads of the API's thread pool
Workers == {"w1", "w2"}
\* the sequential case: one request at a time
OneWorker == {"w1"}
ArxivIds == {"a1", "a2"}

Category(d, t) == [domain |-> d, task |-> t]
catA == Category("d1", "tA")
catB == Category("d1", "tB")
catC == Category("d2", "tC")
catD == Category("d2", "tA")
Categories == {catA, catB, catC, catD}
\* what the classification service answers for a paper
ClassifierOutputs == {catA, catC}

VARIABLES
    \* ---- Metadata Store (committed state of the SQLite file)
    domains,          \* id -> name
    tasks,            \* id -> [name, domain_id]
    papers,           \* id -> [arxiv_id, domain_id, task_id, has_generated_summary,
                      \*        pdf_path, structured_text_path]
    vector_metadata,  \* id -> [type, source_id, chunk_seq, domain_id, task_id]
    sqlite_sequence,  \* AUTOINCREMENT counters: table -> last id handed out
    \* ---- Vector Index
    index,            \* the in-memory FAISS index: the sequence of vectors, each named by its text
    indexFile,        \* the index file on disk, as last written by save()
    lock,             \* VectorDBManager._lock: "free" or the worker holding it
    \* ---- request threads running run_daily_workflow / process_papers_list
    w,                \* worker -> its locals and its position in the code
    runs,             \* calls of process_papers_list started so far
    \* ---- history, read by the properties only
    createdBy,        \* paper row id -> the run that inserted it
    runsDone,         \* arxiv_id -> a call whose list held it has returned
    appendLog,        \* [arxiv, run, later]: a run appended vectors / inserted rows for arxiv
    restarts,         \* process restarts so far
    fresh,            \* the process has just (re)started and served no request yet
    \* ---- the merge executor (api/main.py execute_category_merges)
    mpc,              \* its position: idle, phase1, phase2, done
    confirmed_merges, \* the request's list of [from, to]
    mi,               \* the list position of the next merge_item
    tasks_to_delete,  \* the from task ids collected by phase 1
    successful_updates,
    conn,             \* the executor connection's view of the store inside its transaction
    \* ---- history of the merge executor, read by the properties only
    db0,              \* the store when the request arrived
    halfWritten,      \* paper ids last written by a merge whose vector_metadata update failed
    deletedReferenced,\* phase 2 deleted a task row that a paper or vector_metadata row named
    mergeErrors,      \* storage errors raised inside execute_category_merge
    \* ---- propose_category_merges (agents/ingestion_agent.py)
    ppc,              \* its position: idle, cluster, group, done
    flat_categories,  \* the categories loaded from the store at the start of the run
    candidate_clusters, \* the clusters with more than one member, in loop order
    ci,               \* the position of the current cluster
    groupsLeft,       \* synonym groups of the current cluster not yet looked at
    group,            \* the synonym group of the current iteration
    arbitration_result, \* the canonical_form the service named for it, or NoCanonicalForm
    final_proposals,  \* the proposals emitted so far
    \* ---- startup (core/bootstrap.py, api/main.py lifespan)
    spc,              \* position of the startup sequence, "serving" once lifespan has yielded
    services,         \* the module globals: TRUE for an instance, FALSE for None
    modelD,           \* the embedding model's width
    dimension,        \* VectorDBManager.dimension
    indexFileD,       \* the dimensionality of the persisted index, NULL without a file
    indexD,           \* the dimensionality of the index in memory
    accepted,         \* requests the API has accepted
    api_vector_db_manager, \* the name vector_db_manager of api/main.py, bound by its import
    \* ---- callers of add_or_get_domain / add_or_get_task (hrag/metadata_db.py)
    gc,               \* each caller's position, arguments, result and open transaction
    writer,           \* the connection holding the store's write lock, or "none"
    pending,          \* the store as the writing connection sees it
    glog,             \* the calls that have ended: key, id returned, how the call went
    gcalls,           \* calls made so far
    \* ---- QueryWorkflow.run_stream (workflows/query_flow.py)
    qpc,              \* its position: idle, retrieve, answer, done
    online_search_enabled,
    events,           \* the types of the events sent to the client so far
    raised,           \* an exception left run_stream
    top_reranked_metas, \* the metadata rows selected after reranking
    walked,           \* history: the source_id of each candidate's own row, best score first
    context_parts,    \* the arxiv id of each context block, in order
    online_papers,    \* the candidate papers fetched on the online path
    final_papers,     \* the papers the answer is to be written from
    synthCalled,      \* _agent_synthesize_answer was called
    final_data,       \* the data of the final event: the kind of answer and the source ids
    \* ---- run_daily_workflow (workflows/daily_flow.py)
    dpc,              \* its position: idle, interest, quality, process, gate, ingest, done
    limit,            \* DAILY_PAPER_PROCESS_LIMIT of the run
    papers_passed_interest_filter,
    di,               \* the position of the quality loop in that list
    final_papers_for_report,
    pdfFiles,         \* arxiv ids with a file in PAPER_PDF_DIR
    jsonFiles,        \* arxiv ids with a file in STRUCTURED_DATA_DIR
    message,          \* the message of the returned summary
    \* ---- history of run_daily_workflow, read by the properties only
    processed,        \* the process_paper calls of the quality loop: [arxiv_id, accepted so far]
    rejected,         \* arxiv ids that were downloaded, parsed and matched neither list
    handed,           \* the list handed to process_papers_list
    \* ---- the taxonomy file categories.json, as run_daily_workflow writes it
    categories_json,  \* the (domain, task) pairs in the file
    lastWrite,        \* history: the last write of the file and the store's pairs at that moment
    \* ---- history of the interest stage, read by the properties only
    fetched_n,        \* candidates the source yielded
    handled_n,        \* candidates the stage's loop got to
    matched,          \* the candidates found to match, in order
    \* ---- LLMClient.generate_json (core/llm_client.py)
    jpc,              \* its position: idle, loop, done
    attempt,          \* the loop variable
    responses,        \* history: what the service did at each call, in order
    jresult,          \* the value returned
    \* ---- threads calling VectorDBManager.add / search / save (hrag/vector_db.py)
    th,               \* thread -> the call it is in and its position in it
    icalls,           \* calls made so far
    \* ---- classify_paper_with_rag_context (agents/ingestion_agent.py)
    rag,              \* its position, its candidate, what it returned or that it raised
    \* one call of QueryWorkflow._retrieve_local_context with its configuration
    lr                \* k_results, the retrieved_ids of the search, the returned source_papers

dbVars == <<domains, tasks, papers, vector_metadata, sqlite_sequence>>
ingestVars == <<index, indexFile, lock, w, runs, createdBy, runsDone, appendLog, restarts, fresh>>
mergeVars == <<mpc, confirmed_merges, mi, tasks_to_delete, successful_updates, conn,
               db0, halfWritten, deletedReferenced, mergeErrors>>
proposeVars == <<ppc, flat_categories, candidate_clusters, ci, groupsLeft, group,
                 arbitration_result, final_proposals>>
startupVars == <<spc, services, modelD, dimension, indexFileD, indexD, accepted,
                 api_vector_db_manager>>
gocVars == <<gc, writer, pending, glog, gcalls>>
queryVars == <<qpc, online_search_enabled, events, raised, top_reranked_metas, walked,
               context_parts,
               online_papers, final_papers, synthCalled, final_data>>
taxonomyVars == <<categories_json, lastWrite>>
interestHist == <<fetched_n, handled_n, matched>>
dailyVars == <<dpc, limit, papers_passed_interest_filter, di, final_papers_for_report,
               pdfFiles, jsonFiles, message, processed, rejected, handed,
               taxonomyVars, interestHist>>
jsonVars == <<jpc, attempt, responses, jresult>>
threadVars == <<th, icalls>>
ragVars == <<rag>>
retrVars == <<lr>>
vars == <<dbVars, ingestVars, mergeVars, proposeVars, startupVars, gocVars, queryVars, dailyVars,
          jsonVars, threadVars, ragVars, retrVars>>
\* what each component leaves alone
NotIngest ==
    <<mergeVars, proposeVars, startupVars, gocVars, queryVars, dailyVars, jsonVars,
      threadVars, ragVars, retrVars>>
NotMerge ==
    <<ingestVars, proposeVars, startupVars, gocVars, queryVars, dailyVars, jsonVars,
      threadVars, ragVars, retrVars>>
NotPropose ==
    <<dbVars, ingestVars, mergeVars, startupVars, gocVars, queryVars, dailyVars, jsonVars,
      threadVars, ragVars, retrVars>>
NotStartup ==
    <<dbVars, mergeVars, proposeVars, gocVars, queryVars, dailyVars, jsonVars,
      threadVars, ragVars, retrVars>>
NotGoc ==
    <<ingestVars, mergeVars, proposeVars, startupVars, queryVars, dailyVars, jsonVars,
      threadVars, ragVars, retrVars>>
NotQuery ==
    <<dbVars, ingestVars, mergeVars, proposeVars, startupVars, gocVars, dailyVars, jsonVars,
      threadVars, ragVars, retrVars>>
NotDaily ==
    <<mergeVars, proposeVars, startupVars, gocVars, queryVars, jsonVars,
      threadVars, ragVars, retrVars>>
NotJson ==
    <<dbVars, ingestVars, mergeVars, proposeVars, startupVars, gocVars, queryVars, dailyVars,
      threadVars, ragVars, retrVars>>

NotThreads ==
    <<dbVars, w, runs, createdBy, runsDone, appendLog, restarts, fresh, mergeVars, proposeVars,
      startupVars, gocVars, queryVars, dailyVars, jsonVars, ragVars,
      retrVars>>
NotRag ==
    <<dbVars, ingestVars, mergeVars, proposeVars, startupVars, gocVars, queryVars, jsonVars,
      threadVars, retrVars, dpc, limit, papers_passed_interest_filter, di,
      final_papers_for_report, pdfFiles, jsonFiles, message, processed, rejected, handed,
      interestHist>>

\* ------------------------------------------------------------ helpers
Range(f) == {f[x] : x \in DOMAIN f}
Max(S) == CHOOSE x \in S : \A y \in S : y <= x
Min(a, b) == IF a <= b THEN a ELSE b
SeqsUpTo(S, n) == UNION {[1..k -> S] : k \in 0..n}

\* ------------------------------------------------------- Metadata Store
\* SELECT id FROM domains WHERE name = ?
DomainIdOf(doms, name) ==
    IF \E id \in DOMAIN doms : doms[id] = name
    THEN CHOOSE id \in DOMAIN doms : doms[id] = name
    ELSE NULL

\* SELECT id FROM tasks WHERE name = ? AND domain_id = ?
TaskIdOf(tsks, name, domain_id) ==
    IF \E id \in DOMAIN tsks : tsks[id] = [name |-> name, domain_id |-> domain_id]
    THEN CHOOSE id \in DOMAIN tsks : tsks[id] = [name |-> name, domain_id |-> domain_id]
    ELSE NULL

\* add_or_get_domain on an open connection: the store after the call and the id returned
add_or_get_domain(db, name) ==
    LET found == DomainIdOf(db.domains, name)
        new == db.seq.domains + 1
    IN  IF found # NULL
        THEN [db |-> db, id |-> found]
        ELSE [db |-> [db EXCEPT !.domains = new :> name @@ db.domains,
                                !.seq.domains = new],
              id |-> new]

\* add_or_get_task on an open connection
add_or_get_task(db, name, domain_id) ==
    LET found == TaskIdOf(db.tasks, name, domain_id)
        new == db.seq.tasks + 1
    IN  IF found # NULL
        THEN [db |-> db, id |-> found]
        ELSE [db |-> [db EXCEPT !.tasks = new :> [name |-> name, domain_id |-> domain_id] @@ db.tasks,
                                !.seq.tasks = new],
              id |-> new]

\* the store after create_tables
EmptyDb == [domains |-> <<>>, tasks |-> <<>>, papers |-> <<>>, vector_metadata |-> <<>>,
            seq |-> [domains |-> 0, tasks |-> 0, papers |-> 0]]

\* the connection's view of the store, as one value
TheDb == [domains |-> domains, tasks |-> tasks, papers |-> papers,
          vector_metadata |-> vector_metadata, seq |-> sqlite_sequence]

\* COMMIT: the connection's view becomes the store
Commit(db) ==
    /\ domains' = db.domains
    /\ tasks' = db.tasks
    /\ papers' = db.papers
    /\ vector_metadata' = db.vector_metadata
    /\ sqlite_sequence' = db.seq

\* a lookup that never matches the stored arxiv_id (compares another form of the id)
PaperRows_NoMatch(pp, a) == {}

\* the rows of papers with the given arxiv_id
PaperRows(pp, a) == {id \in DOMAIN pp : pp[id].arxiv_id = a}

\* check_if_paper_exists
check_if_paper_exists(a) == PaperRows(papers, a) # {}

\* the UNIQUE constraint on papers.arxiv_id, as checked by an INSERT
ArxivIdTaken(pp, a) == PaperRows(pp, a) # {}

\* ---- Python values and the column values sqlite3 stores for them
PyNone == <<"NoneType">>
PyStrVal(s) == <<"str", s>>
SqlNull == <<"NULL">>
SqlText(s) == <<"TEXT", s>>

\* the builtin str(): str(None) is the four-letter text 'None'
str(v) == IF v = PyNone THEN PyStrVal("None") ELSE v

\* a value bound to a named parameter of an INSERT: None is stored as NULL, a str as TEXT
BindParam(v) == IF v = PyNone THEN SqlNull ELSE SqlText(v[2])

\* what process_paper returns for a downloaded and parsed paper: the two file paths
ParsedPathInfo == [pdf_path |-> PyStrVal("paper.pdf"), json_path |-> PyStrVal("paper.json")]
\* the path_info of metadata-only ingestion
EmptyPathInfo == [pdf_path |-> PyNone, json_path |-> PyNone]

\* add_paper's INSERT (a new connection, committed at once): the papers table and
\* the AUTOINCREMENT counter after it. The row has no classification and no summary yet;
\* the two path parameters are bound as str(paper_data.get(...)).
InsertPaper(pp, seq, a, path_info) ==
    LET new == seq.papers + 1
    IN  [papers |-> new :> [arxiv_id |-> a, domain_id |-> NULL, task_id |-> NULL,
                            has_generated_summary |-> FALSE,
                            pdf_path |-> BindParam(str(path_info.pdf_path)),
                            structured_text_path |-> BindParam(str(path_info.json_path))] @@ pp,
         seq |-> [seq EXCEPT !.papers = new],
         id |-> new]

\* UPDATE papers SET domain_id, task_id, generated_summary WHERE arxiv_id = ?
update_paper_summary_and_classification(pp, a, domain_id, task_id, summary) ==
    [id \in DOMAIN pp |->
        IF pp[id].arxiv_id = a
        THEN [pp[id] EXCEPT !.domain_id = domain_id, !.task_id = task_id,
                            !.has_generated_summary = summary]
        ELSE pp[id]]

\* get_max_vector_id: MAX(id), or -1 on an empty table
get_max_vector_id(vm) == IF DOMAIN vm = {} THEN -1 ELSE Max(DOMAIN vm)

\* start_id = (max_id_in_db + 1) if max_id_in_db is not None else 0
StartId(max_id_in_db) == IF max_id_in_db # None THEN max_id_in_db + 1 ELSE 0

\* a row builder that tags and numbers the texts by their place in the batch
MetaRow_BatchLocal(a, i, j, domain_id, task_id) ==
    [type |-> IF j = 0 THEN "paper_summary" ELSE "raw_chunk",
     source_id |-> a,
     chunk_seq |-> IF j = 0 THEN NULL ELSE j - 1,
     domain_id |-> domain_id, task_id |-> task_id,
     content_preview |-> <<a, i + j>>]

\* meta: the metadata row of text j of the batch that starts at text i of paper a
\* (all_text_chunks[0] is the summary); its content_preview, the first 200 characters
\* of all_text_chunks[i + j], is named by the text
MetaRow(a, i, j, domain_id, task_id) ==
    LET is_summary == (i = 0 /\ j = 0)
        chunk_index_in_paper == i + j
    IN  [type |-> IF is_summary THEN "paper_summary" ELSE "raw_chunk",
         source_id |-> a,
         chunk_seq |-> IF is_summary THEN NULL ELSE chunk_index_in_paper - 1,
         domain_id |-> domain_id, task_id |-> task_id,
         content_preview |-> <<a, chunk_index_in_paper>>]

\* metadata_for_batch: ids start_id .. start_id+n-1 for the texts i .. i+n-1
metadata_for_batch(a, i, n, start_id, domain_id, task_id) ==
    [id \in start_id .. (start_id + n - 1) |-> MetaRow(a, i, id - start_id, domain_id, task_id)]

\* the vectors encode() returns for the texts i .. i+n-1 of paper a, each named by its text
BatchVectors(a, i, n) == [j \in 1..n |-> <<a, i + j - 1>>]

\* len(batch_texts) for the batch starting at text i
BatchLen(nTexts, i) == Min(BatchSize, nTexts - i)

\* ------------------------------------------------- ingestion workflow
NoClassification == Category("", "")
\* an arbitration answer that is empty or has no canonical_form key
NoCanonicalForm == Category("", "")

IdleWorker ==
    [pc |-> "idle", papers_to_process |-> <<>>, k |-> 0,
     successfully_processed_papers |-> <<>>,
     classification |-> NoClassification, nTexts |-> 0, i |-> 0, start_id |-> 0,
     domain_id |-> NULL, task_id |-> NULL,
     c |-> 0, run |-> 0, later |-> {}, ingestion_mode |-> "full",
     failed |-> {}]

\* the paper of the current loop iteration
Cur(wr) == wr.papers_to_process[wr.k]

\* a loop that leaves the list at the first failed paper
NextPaper_StopOnFailure(wr, success) ==
    [IdleWorker EXCEPT
        !.pc = "loop",
        !.papers_to_process = wr.papers_to_process,
        !.k = IF success THEN wr.k + 1 ELSE Len(wr.papers_to_process) + 1,
        !.successfully_processed_papers =
            IF success THEN Append(wr.successfully_processed_papers, Cur(wr))
            ELSE wr.successfully_processed_papers,
        !.run = wr.run, !.later = wr.later, !.ingestion_mode = wr.ingestion_mode,
        !.failed = IF success THEN wr.failed ELSE wr.failed \cup {wr.k}]

\* the locals at the head of the next loop iteration (continue, or the end of the body);
\* failed (history) holds the list positions whose paper was new to the store and was
\* given up
NextPaper(wr, success) ==
    [IdleWorker EXCEPT
        !.pc = "loop",
        !.papers_to_process = wr.papers_to_process,
        !.k = wr.k + 1,
        !.successfully_processed_papers =
            IF success THEN Append(wr.successfully_processed_papers, Cur(wr))
            ELSE wr.successfully_processed_papers,
        !.run = wr.run, !.later = wr.later, !.ingestion_mode = wr.ingestion_mode,
        !.failed = IF success THEN wr.failed ELSE wr.failed \cup {wr.k}]

\* a request thread enters process_papers_list with a non-empty list
StartRun(p, maxList) ==
    /\ w[p].pc = "idle"
    /\ runs < MaxRuns
    /\ \E list \in SeqsUpTo(ArxivIds, maxList) \ {<<>>} :
          w' = [w EXCEPT ![p] = [IdleWorker EXCEPT
                    !.pc = "loop", !.papers_to_process = list, !.k = 1,
                    !.run = runs + 1,
                    !.later = {a \in Range(list) : runsDone[a]}]]
    /\ runs' = runs + 1
    /\ fresh' = FALSE
    /\ UNCHANGED NotIngest
    /\ UNCHANGED <<dbVars, index, indexFile, lock, createdBy, runsDone, appendLog, restarts>>

\* a request thread enters process_papers_list(list, ingestion_mode='metadata_only')
\* with a non-empty list
StartRunMetadataOnly(p, maxList) ==
    /\ w[p].pc = "idle"
    /\ runs < MaxRuns
    /\ \E list \in SeqsUpTo(ArxivIds, maxList) \ {<<>>} :
          w' = [w EXCEPT ![p] = [IdleWorker EXCEPT
                    !.pc = "loop", !.papers_to_process = list, !.k = 1,
                    !.run = runs + 1,
                    !.later = {a \in Range(list) : runsDone[a]},
                    !.ingestion_mode = "metadata_only"]]
    /\ runs' = runs + 1
    /\ fresh' = FALSE
    /\ UNCHANGED NotIngest
    /\ UNCHANGED <<dbVars, index, indexFile, lock, createdBy, runsDone, appendLog, restarts>>

\* the head of the for loop: check_if_paper_exists, an existing paper counts as a success
CheckExists(p) ==
    /\ w[p].pc = "loop"
    /\ w[p].k <= Len(w[p].papers_to_process)
    /\ w' = [w EXCEPT ![p] =
                IF check_if_paper_exists(Cur(w[p]))
                THEN NextPaper(w[p], TRUE)
                ELSE [w[p] EXCEPT !.pc = IF w[p].ingestion_mode = "full"
                                         THEN "pdf" ELSE "add_paper"]]
    /\ UNCHANGED NotIngest
    /\ UNCHANGED <<dbVars, index, indexFile, lock, runs, createdBy, runsDone, appendLog, restarts, fresh>>

\* pdf_processor.process_paper: the paths, or None (download or parse failed)
ProcessPdf(p) ==
    /\ w[p].pc = "pdf"
    /\ \E path_info \in BOOLEAN :
          w' = [w EXCEPT ![p] =
                    IF path_info THEN [w[p] EXCEPT !.pc = "add_paper"]
                    ELSE NextPaper(w[p], FALSE)]
    /\ UNCHANGED NotIngest
    /\ UNCHANGED <<dbVars, index, indexFile, lock, runs, createdBy, runsDone, appendLog, restarts, fresh>>

\* metadata_db.add_paper: None on IntegrityError (the row exists) or on a storage error
AddPaper(p) ==
    /\ w[p].pc = "add_paper"
    /\ \E storage_error \in BOOLEAN :
          IF ArxivIdTaken(papers, Cur(w[p])) \/ storage_error
          THEN /\ w' = [w EXCEPT ![p] = NextPaper(w[p], FALSE)]
               /\ UNCHANGED <<papers, sqlite_sequence, createdBy>>
          ELSE LET path_info == IF w[p].ingestion_mode = "full"
                                THEN ParsedPathInfo ELSE EmptyPathInfo
                   r == InsertPaper(papers, sqlite_sequence, Cur(w[p]), path_info)
               IN  /\ papers' = r.papers
                   /\ sqlite_sequence' = r.seq
                   /\ createdBy' = r.id :> w[p].run @@ createdBy
                   /\ w' = [w EXCEPT ![p].pc = IF w[p].ingestion_mode = "full"
                                               THEN "preprocess" ELSE "classify_meta"]
    /\ UNCHANGED NotIngest
    /\ UNCHANGED <<domains, tasks, vector_metadata, index, indexFile, lock, runs,
                   runsDone, appendLog, restarts, fresh>>

\* process_and_add_paper, the preprocessing try block: classification, summary,
\* all_text_chunks; any failure returns False
Preprocess(p) ==
    /\ w[p].pc = "preprocess"
    /\ \/ w' = [w EXCEPT ![p] = NextPaper(w[p], FALSE)]
       \/ \E cls \in ClassifierOutputs, n \in 1..MaxTexts :
             w' = [w EXCEPT ![p] = [w[p] EXCEPT
                       !.pc = "classify_tx", !.classification = cls, !.nTexts = n]]
    /\ UNCHANGED NotIngest
    /\ UNCHANGED <<dbVars, index, indexFile, lock, runs, createdBy, runsDone, appendLog, restarts, fresh>>

\* the first `with conn`: add_or_get_domain, add_or_get_task, update of the paper row
ClassifyTx(p) ==
    /\ w[p].pc = "classify_tx"
    /\ \/ /\ w' = [w EXCEPT ![p] = NextPaper(w[p], FALSE)]
          /\ UNCHANGED dbVars
       \/ LET d == add_or_get_domain(TheDb, w[p].classification.domain)
              t == add_or_get_task(d.db, w[p].classification.task, d.id)
              db == [t.db EXCEPT !.papers =
                        update_paper_summary_and_classification(
                            t.db.papers, Cur(w[p]), d.id, t.id, TRUE)]
          IN  /\ Commit(db)
              /\ w' = [w EXCEPT ![p] = [w[p] EXCEPT
                        !.pc = "encode", !.domain_id = d.id, !.task_id = t.id, !.i = 0]]
    /\ UNCHANGED NotIngest
    /\ UNCHANGED <<index, indexFile, lock, runs, createdBy, runsDone, appendLog, restarts, fresh>>

\* the batch loop is over: process_and_add_paper returns True
BatchesDone(p) ==
    /\ w[p].pc = "encode"
    /\ w[p].i >= w[p].nTexts
    /\ w' = [w EXCEPT ![p] = NextPaper(w[p], TRUE)]
    /\ UNCHANGED NotIngest
    /\ UNCHANGED <<dbVars, index, indexFile, lock, runs, createdBy, runsDone, appendLog, restarts, fresh>>

\* embedding_engine.encode of one batch: vectors, nothing (the batch is skipped), or it raises
Encode(p) ==
    /\ w[p].pc = "encode"
    /\ w[p].i < w[p].nTexts
    /\ \E r \in {"vectors", "empty", "raise"} :
          w' = [w EXCEPT ![p] =
                    CASE r = "vectors" -> [w[p] EXCEPT !.pc = "read_max"]
                      [] r = "empty" -> [w[p] EXCEPT !.i = @ + BatchSize]
                      [] OTHER -> NextPaper(w[p], FALSE)]
    /\ UNCHANGED NotIngest
    /\ UNCHANGED <<dbVars, index, indexFile, lock, runs, createdBy, runsDone, appendLog, restarts, fresh>>

\* get_max_vector_id (None when the query failed) and start_id
ReadMaxId(p) ==
    /\ w[p].pc = "read_max"
    /\ \E max_id_in_db \in {get_max_vector_id(vector_metadata), None} :
          w' = [w EXCEPT ![p] = [w[p] EXCEPT
                    !.pc = "add_lock", !.start_id = StartId(max_id_in_db)]]
    /\ UNCHANGED NotIngest
    /\ UNCHANGED <<dbVars, index, indexFile, lock, runs, createdBy, runsDone, appendLog, restarts, fresh>>

\* VectorDBManager.add: `with self._lock`
AcquireLock(p) ==
    /\ w[p].pc = "add_lock"
    /\ lock = "free"
    /\ lock' = p
    /\ w' = [w EXCEPT ![p].pc = "add_vectors"]
    /\ UNCHANGED NotIngest
    /\ UNCHANGED <<dbVars, index, indexFile, runs, createdBy, runsDone, appendLog, restarts, fresh>>

\* an append whose exception is swallowed: the batch goes on to its insert
AddVectors_SwallowRaise(p) ==
    /\ w[p].pc = "add_vectors"
    /\ lock = p
    /\ lock' = "free"
    /\ \/ /\ w' = [w EXCEPT ![p] = [w[p] EXCEPT !.pc = "insert_meta", !.c = Len(index)]]
          /\ UNCHANGED <<index, appendLog>>
       \/ /\ index' = index \o BatchVectors(Cur(w[p]), w[p].i, BatchLen(w[p].nTexts, w[p].i))
          /\ appendLog' = appendLog \cup
                {[kind |-> "vector", arxiv |-> Cur(w[p]), run |-> w[p].run,
                  later |-> Cur(w[p]) \in w[p].later]}
          /\ w' = [w EXCEPT ![p] = [w[p] EXCEPT !.pc = "insert_meta", !.c = Len(index)]]
    /\ UNCHANGED NotIngest
    /\ UNCHANGED <<dbVars, indexFile, runs, createdBy, runsDone, restarts, fresh>>

\* index.add(vectors) under the lock, which is released on the way out; if it
\* raises, the transaction is rolled back and process_and_add_paper returns False
AddVectors(p) ==
    /\ w[p].pc = "add_vectors"
    /\ lock = p
    /\ lock' = "free"
    /\ \/ /\ w' = [w EXCEPT ![p] = NextPaper(w[p], FALSE)]
          /\ UNCHANGED <<index, appendLog>>
       \/ /\ index' = index \o BatchVectors(Cur(w[p]), w[p].i, BatchLen(w[p].nTexts, w[p].i))
          /\ appendLog' = appendLog \cup
                {[kind |-> "vector", arxiv |-> Cur(w[p]), run |-> w[p].run,
                  later |-> Cur(w[p]) \in w[p].later]}
          /\ w' = [w EXCEPT ![p] = [w[p] EXCEPT !.pc = "insert_meta", !.c = Len(index)]]
    /\ UNCHANGED NotIngest
    /\ UNCHANGED <<dbVars, indexFile, runs, createdBy, runsDone, restarts, fresh>>

\* add_vector_metadata_batch and the commit of the batch's `with conn`; a primary
\* key conflict or a storage error raises: rollback, process_and_add_paper returns False
InsertMeta(p) ==
    /\ w[p].pc = "insert_meta"
    /\ LET rows == metadata_for_batch(Cur(w[p]), w[p].i, BatchLen(w[p].nTexts, w[p].i),
                                      w[p].start_id, w[p].domain_id, w[p].task_id)
       IN  \E storage_error \in BOOLEAN :
              IF DOMAIN rows \cap DOMAIN vector_metadata # {} \/ storage_error
              THEN /\ w' = [w EXCEPT ![p] = NextPaper(w[p], FALSE)]
                   /\ UNCHANGED <<vector_metadata, appendLog>>
              ELSE /\ vector_metadata' = rows @@ vector_metadata
                   /\ appendLog' = appendLog \cup
                         {[kind |-> "meta", arxiv |-> Cur(w[p]), run |-> w[p].run,
                           later |-> Cur(w[p]) \in w[p].later]}
                   /\ w' = [w EXCEPT ![p] = [w[p] EXCEPT !.pc = "encode", !.i = @ + BatchSize]]
    /\ UNCHANGED NotIngest
    /\ UNCHANGED <<domains, tasks, papers, sqlite_sequence, index, indexFile, lock, runs,
                   createdBy, runsDone, restarts, fresh>>

\* metadata-only ingestion after add_paper: if the paper carries a classification_result,
\* one transaction get-or-creates its categories and sets them on the paper row (no
\* summary); an exception in it is caught by the loop, which goes on with the next paper
ClassifyMetadataOnly(p) ==
    /\ w[p].pc = "classify_meta"
    /\ \E classification_result \in ClassifierOutputs \cup {NoClassification} :
          IF classification_result = NoClassification
          THEN /\ w' = [w EXCEPT ![p] = NextPaper(w[p], TRUE)]
               /\ UNCHANGED dbVars
          ELSE \/ /\ w' = [w EXCEPT ![p] = NextPaper(w[p], FALSE)]
                  /\ UNCHANGED dbVars
               \/ LET d == add_or_get_domain(TheDb, classification_result.domain)
                      t == add_or_get_task(d.db, classification_result.task, d.id)
                      db == [t.db EXCEPT !.papers =
                                update_paper_summary_and_classification(
                                    t.db.papers, Cur(w[p]), d.id, t.id, FALSE)]
                  IN  /\ Commit(db)
                      /\ w' = [w EXCEPT ![p] = NextPaper(w[p], TRUE)]
    /\ UNCHANGED NotIngest
    /\ UNCHANGED <<index, indexFile, lock, runs, createdBy, runsDone, appendLog, restarts, fresh>>

\* process_papers_list returns its success list to run_category_collection_workflow,
\* which does not save the index
ReturnListMetadataOnly(p) ==
    /\ w[p].pc = "loop"
    /\ w[p].ingestion_mode = "metadata_only"
    /\ w[p].k > Len(w[p].papers_to_process)
    /\ w' = [w EXCEPT ![p] = IdleWorker]
    /\ runsDone' = [a \in ArxivIds |-> runsDone[a] \/ a \in Range(w[p].papers_to_process)]
    /\ UNCHANGED NotIngest
    /\ UNCHANGED <<dbVars, index, indexFile, lock, runs, createdBy, appendLog, restarts, fresh>>

\* process_papers_list returns its success list to run_daily_workflow
ReturnList(p) ==
    /\ w[p].pc = "loop"
    /\ w[p].ingestion_mode = "full"
    /\ w[p].k > Len(w[p].papers_to_process)
    /\ w' = [w EXCEPT ![p].pc = "save"]
    /\ runsDone' = [a \in ArxivIds |-> runsDone[a] \/ a \in Range(w[p].papers_to_process)]
    /\ UNCHANGED NotIngest
    /\ UNCHANGED <<dbVars, index, indexFile, lock, runs, createdBy, appendLog, restarts, fresh>>

\* run_daily_workflow: vector_db_manager.save() if the success list is not empty
SaveIndex(p) ==
    /\ w[p].pc = "save"
    /\ lock = "free"
    /\ indexFile' = IF w[p].successfully_processed_papers # <<>> THEN index ELSE indexFile
    /\ w' = [w EXCEPT ![p] = IdleWorker]
    /\ UNCHANGED NotIngest
    /\ UNCHANGED <<dbVars, index, lock, runs, createdBy, runsDone, appendLog, restarts, fresh>>

\* the process stops at any point and is started again: _load_or_create_index reads
\* the index file (a new empty index if there is none); the store holds what was committed
Restart ==
    /\ restarts < MaxRestarts
    /\ restarts' = restarts + 1
    /\ index' = indexFile
    /\ lock' = "free"
    /\ w' = [p \in Workers |-> IdleWorker]
    /\ fresh' = TRUE
    /\ UNCHANGED NotIngest
    /\ UNCHANGED <<dbVars, indexFile, runs, createdBy, runsDone, appendLog>>

IngestStep(p, maxList) ==
    \/ StartRun(p, maxList)
    \/ CheckExists(p)
    \/ ProcessPdf(p)
    \/ AddPaper(p)
    \/ Preprocess(p)
    \/ ClassifyTx(p)
    \/ BatchesDone(p)
    \/ Encode(p)
    \/ ReadMaxId(p)
    \/ AcquireLock(p)
    \/ AddVectors(p)
    \/ InsertMeta(p)
    \/ ReturnList(p)
    \/ SaveIndex(p)

\* the connections that call the get-or-create helpers
Conns == {"c1", "c2"}
\* a caller between calls, with no connection open
IdleCaller == [pc |-> "idle", mode |-> "own", table |-> "domains", name |-> "", domain_id |-> NULL,
               open |-> {}]

\* no caller is inside a get-or-create helper
GocIdle ==
    /\ gc = [c \in Conns |-> IdleCaller]
    /\ writer = "none"
    /\ pending = EmptyDb
    /\ glog = {}
    /\ gcalls = 0

\* no query is being answered
QueryIdle ==
    /\ qpc = "idle"
    /\ online_search_enabled = FALSE
    /\ events = <<>>
    /\ raised = FALSE
    /\ top_reranked_metas = <<>>
    /\ walked = <<>>
    /\ context_parts = <<>>
    /\ online_papers = <<>>
    /\ final_papers = <<>>
    /\ synthCalled = FALSE
    /\ final_data = [answer |-> "", sources |-> <<>>]

\* Python None as generate_json returns it
JsonNull == "None"

\* no generate_json call is in progress
JsonIdle ==
    /\ jpc = "idle"
    /\ attempt = 0
    /\ responses = <<>>
    /\ jresult = JsonNull

\* no call of classify_paper_with_rag_context has been made
RagIdle == rag = [pc |-> "idle", candidate |-> [domain |-> "", task |-> ""],
                  result |-> [domain |-> "", task |-> ""], raised |-> FALSE, branch |-> ""]

RetrIdle == lr = [pc |-> "idle", k_results |-> 0, retrieved_ids |-> <<>>, source_papers |-> <<>>,
                  branch |-> ""]

\* the threads that call into the Vector Index
Threads == {"t1", "t2"}
\* a thread outside every VectorDBManager method
IdleThread == [pc |-> "idle", op |-> "", call |-> 0, n |-> 0, j |-> 0, ntotal |-> 0]

\* no thread is inside VectorDBManager
ThreadsIdle ==
    /\ th = [t \in Threads |-> IdleThread]
    /\ icalls = 0

\* the taxonomy file has not been written yet
NoWrite == [kind |-> "none", file |-> {}, store |-> {}]

\* no daily workflow is running; the storage directories are empty
DailyIdle ==
    /\ dpc = "idle"
    /\ limit = MaxLimit
    /\ papers_passed_interest_filter = <<>>
    /\ di = 0
    /\ final_papers_for_report = <<>>
    /\ pdfFiles = {}
    /\ jsonFiles = {}
    /\ message = ""
    /\ processed = <<>>
    /\ rejected = {}
    /\ handed = <<>>
    /\ categories_json = {}
    /\ lastWrite = NoWrite
    /\ fetched_n = 0
    /\ handled_n = 0
    /\ matched = <<>>

\* the ingestion pipeline at rest on an empty index
IngestIdle ==
    /\ lock = "free"
    /\ w = [p \in Workers |-> IdleWorker]
    /\ runs = 0
    /\ createdBy = <<>>
    /\ runsDone = [a \in ArxivIds |-> FALSE]
    /\ appendLog = {}
    /\ restarts = 0
    /\ fresh = TRUE

\* no merge request and no proposal run in progress
MergeIdle ==
    /\ mpc = "idle"
    /\ confirmed_merges = <<>>
    /\ mi = 0
    /\ tasks_to_delete = {}
    /\ successful_updates = 0
    /\ conn = EmptyDb
    /\ db0 = EmptyDb
    /\ halfWritten = {}
    /\ deletedReferenced = FALSE
    /\ mergeErrors = 0
    /\ ppc = "idle"
    /\ flat_categories = {}
    /\ candidate_clusters = <<>>
    /\ ci = 0
    /\ groupsLeft = 0
    /\ group = <<>>
    /\ arbitration_result = NoCanonicalForm
    /\ final_proposals = <<>>

\* the widths an embedding model or a persisted index can have
Dims == {384, 1024}
AllServices == [embedding_engine |-> TRUE, vector_db_manager |-> TRUE, llm_client |-> TRUE,
                reranker |-> TRUE, hrag_manager |-> TRUE]
NoServices == [embedding_engine |-> FALSE, vector_db_manager |-> FALSE, llm_client |-> FALSE,
               reranker |-> FALSE, hrag_manager |-> FALSE]

\* the process after a startup in which every service came up, its index as loaded;
\* api/main.py was imported before the services were initialized, when the global
\* vector_db.vector_db_manager was still None
StartupDone ==
    /\ spc = "serving"
    /\ services = AllServices
    /\ modelD = 384
    /\ dimension = 384
    /\ indexFileD = 384
    /\ indexD = 384
    /\ accepted = 0
    /\ api_vector_db_manager = FALSE

\* an empty store (create_tables) and a new empty index
Init ==
    /\ domains = <<>>
    /\ tasks = <<>>
    /\ papers = <<>>
    /\ vector_metadata = <<>>
    /\ sqlite_sequence = [domains |-> 0, tasks |-> 0, papers |-> 0]
    /\ index = <<>>
    /\ indexFile = <<>>
    /\ lock = "free"
    /\ w = [p \in Workers |-> IdleWorker]
    /\ runs = 0
    /\ createdBy = <<>>
    /\ runsDone = [a \in ArxivIds |-> FALSE]
    /\ appendLog = {}
    /\ restarts = 0
    /\ fresh = TRUE
    /\ mpc = "idle"
    /\ confirmed_merges = <<>>
    /\ mi = 0
    /\ tasks_to_delete = {}
    /\ successful_updates = 0
    /\ conn = EmptyDb
    /\ db0 = EmptyDb
    /\ halfWritten = {}
    /\ deletedReferenced = FALSE
    /\ mergeErrors = 0
    /\ ppc = "idle"
    /\ flat_categories = {}
    /\ candidate_clusters = <<>>
    /\ ci = 0
    /\ groupsLeft = 0
    /\ group = <<>>
    /\ arbitration_result = NoCanonicalForm
    /\ final_proposals = <<>>
    /\ StartupDone
    /\ GocIdle
    /\ QueryIdle
    /\ JsonIdle
    /\ ThreadsIdle
    /\ RagIdle
    /\ RetrIdle
    /\ DailyIdle

\* one request at a time, no restart
NextSeq == \E p \in OneWorker : IngestStep(p, MaxList)
SpecSeq == Init /\ [][NextSeq]_vars

\* one request at a time; the process may stop and restart
NextCrash == (\E p \in OneWorker : IngestStep(p, MaxList)) \/ Restart
SpecCrash == Init /\ [][NextCrash]_vars

\* two requests served concurrently by the thread pool
NextConc == \E p \in Workers : IngestStep(p, MaxListConc)
SpecConc == Init /\ [][NextConc]_vars

\* ---------------------------------------------------- ingestion claims
\* the text a metadata row describes: (paper, position in [summary] + text chunks)
RowText(r) == <<r.source_id, IF r.type = "paper_summary" THEN 0 ELSE r.chunk_seq + 1>>

\* every metadata row's id is the offset, in idx, of the vector of the row's text
Aligned(vm, idx) ==
    \A id \in DOMAIN vm : id < Len(idx) /\ idx[id + 1] = RowText(vm[id])

\* C1: positional alignment. In every reachable state of sequential ingestion (failed
\* vector appends and failed metadata inserts included) every committed VectorMetadata
\* row has as id the index offset at which the embedding of its text was written: the
\* rows of a batch are the range [c, c+n-1], c the index count before the batch's append.
C1_PositionalAlignment == Aligned(vector_metadata, index)

\* C2: crash safety of id allocation. Right after a restart (the index reloaded from
\* its file, the store holding what was committed) no committed VectorMetadata row has
\* an id >= the reloaded index's vector count.
C2_NoRowBeyondReloadedIndex ==
    (fresh /\ restarts > 0) => \A id \in DOMAIN vector_metadata : id < Len(index)

\* a worker is inside a batch: it has read the max id and has not yet committed its rows
InBatch(p) == w[p].pc \in {"add_lock", "add_vectors", "insert_meta"}

\* C3: read max id, append vectors, insert rows are one critical section: two
\* concurrent ingestion calls are never inside a batch at the same time.
C3_BatchIsCriticalSection ==
    \A p \in Workers, q \in Workers : p # q => ~(InBatch(p) /\ InBatch(q))

\* at most one Paper row per arxiv_id
OnePaperRowPerArxivId ==
    \A a \in ArxivIds : Cardinality({id \in DOMAIN papers : papers[id].arxiv_id = a}) <= 1

\* C4 as claimed: at most one Paper row per arxiv_id, and a run of process_papers_list
\* that starts after an earlier run on the same arxiv_id has returned (a second or later
\* run) appends no vector and inserts no VectorMetadata row for it.
C4_LaterRunsAppendNothing ==
    /\ OnePaperRowPerArxivId
    /\ \A e \in appendLog : ~e.later

\* C4 amended: at most one Paper row per arxiv_id, and vectors and VectorMetadata rows
\* of an arxiv_id are written only by the run that inserted its Paper row; every run
\* that finds the row present writes nothing for it.
C4_OnlyCreatingRunAppends ==
    /\ OnePaperRowPerArxivId
    /\ \A e \in appendLog :
          \E id \in DOMAIN papers : papers[id].arxiv_id = e.arxiv /\ createdBy[id] = e.run

\* a second run on a1, started after the run that ingested a1 returned, has skipped a1
C4_Witness ==
    \E p \in Workers :
        /\ w[p].run = 2
        /\ "a1" \in w[p].later
        /\ "a1" \in Range(w[p].successfully_processed_papers)
        /\ [kind |-> "meta", arxiv |-> "a1", run |-> 1, later |-> FALSE] \in appendLog

\* ------------------------------------------------- category merge: store
\* the task id of a (domain, task) category in a store, NULL if it has no task row
CatTaskId(db, cat) ==
    LET d == DomainIdOf(db.domains, cat.domain)
    IN  IF d = NULL THEN NULL ELSE TaskIdOf(db.tasks, cat.task, d)

\* UPDATE papers SET domain_id = ?, task_id = ? WHERE task_id = ?
RepointPapers(pp, to_domain_id, to_task_id, from_task_id) ==
    [id \in DOMAIN pp |->
        IF pp[id].task_id = from_task_id
        THEN [pp[id] EXCEPT !.domain_id = to_domain_id, !.task_id = to_task_id]
        ELSE pp[id]]

\* an UPDATE of vector_metadata that sets task_id and leaves domain_id as it was
RepointVectorMetadata_TaskOnly(vm, to_domain_id, to_task_id, from_task_id) ==
    [id \in DOMAIN vm |->
        IF vm[id].task_id = from_task_id
        THEN [vm[id] EXCEPT !.task_id = to_task_id]
        ELSE vm[id]]

\* a DELETE of the from task's rows in place of the UPDATE
RepointVectorMetadata_DeleteRows(vm, to_domain_id, to_task_id, from_task_id) ==
    [id \in {i \in DOMAIN vm : vm[i].task_id # from_task_id} |-> vm[id]]

\* UPDATE vector_metadata SET domain_id = ?, task_id = ? WHERE task_id = ?
RepointVectorMetadata(vm, to_domain_id, to_task_id, from_task_id) ==
    [id \in DOMAIN vm |->
        IF vm[id].task_id = from_task_id
        THEN [vm[id] EXCEPT !.domain_id = to_domain_id, !.task_id = to_task_id]
        ELSE vm[id]]

\* execute_category_merge on the caller's connection. err names the statement at which
\* a storage error (sqlite3.Error) is raised: "none", "papers" (the UPDATE of papers) or
\* "vector_metadata" (the UPDATE of vector_metadata). The except clause logs the error
\* and returns (None, None); what the statements before it wrote stays in the transaction.
execute_category_merge(db, from, to, err) ==
    LET d == add_or_get_domain(db, to.domain)
        t == add_or_get_task(d.db, to.task, d.id)
        from_domain_id == DomainIdOf(t.db.domains, from.domain)
        from_task_id == TaskIdOf(t.db.tasks, from.task, from_domain_id)
        failed(x, e) == [db |-> x, from_id |-> None, to_id |-> None, raised |-> e]
        done(x) == [db |-> x, from_id |-> from_task_id, to_id |-> t.id, raised |-> FALSE]
        db1 == [t.db EXCEPT !.papers = RepointPapers(@, d.id, t.id, from_task_id)]
        db2 == [db1 EXCEPT !.vector_metadata = RepointVectorMetadata(@, d.id, t.id, from_task_id)]
    IN  CASE from_domain_id = NULL -> failed(t.db, FALSE)
          [] from_task_id = NULL -> failed(t.db, FALSE)
          [] from_task_id = t.id -> done(t.db)
          [] err = "papers" -> failed(t.db, TRUE)
          [] err = "vector_metadata" -> failed(db1, TRUE)
          [] OTHER -> done(db2)

\* DELETE FROM tasks WHERE id = ? with foreign keys on: papers.task_id is ON DELETE
\* SET NULL; vector_metadata has no foreign key
DeleteTask(db, task_id) ==
    [db EXCEPT
        !.tasks = [id \in DOMAIN db.tasks \ {task_id} |-> db.tasks[id]],
        !.papers = [id \in DOMAIN db.papers |->
                        IF db.papers[id].task_id = task_id
                        THEN [db.papers[id] EXCEPT !.task_id = NULL]
                        ELSE db.papers[id]]]

\* a paper or vector_metadata row of db names the task
Referenced(db, task_id) ==
    \/ \E id \in DOMAIN db.papers : db.papers[id].task_id = task_id
    \/ \E id \in DOMAIN db.vector_metadata : db.vector_metadata[id].task_id = task_id

\* ---------------------------------------------- category merge: executor
MergeItems == [from : Categories, to : Categories]
MergeErrors == {"none", "papers", "vector_metadata"}

\* the request arrives with a non-empty confirmed_merges list of at most maxMerges
\* items; a connection is opened
ExecuteMergesRequestFrom(items, maxMerges) ==
    /\ mpc = "idle"
    /\ \E list \in SeqsUpTo(items, maxMerges) \ {<<>>} : confirmed_merges' = list
    /\ mpc' = "phase1"
    /\ mi' = 1
    /\ tasks_to_delete' = {}
    /\ successful_updates' = 0
    /\ conn' = TheDb
    /\ db0' = TheDb
    /\ UNCHANGED <<dbVars, NotMerge, halfWritten, deletedReferenced, mergeErrors>>

ExecuteMergesRequestOf(maxMerges) == ExecuteMergesRequestFrom(MergeItems, maxMerges)

ExecuteMergesRequest == ExecuteMergesRequestOf(MaxMerges)

\* phase 1, one merge_item of the loop inside `with conn`
Phase1Merge ==
    /\ mpc = "phase1"
    /\ mi <= Len(confirmed_merges)
    /\ \E err \in MergeErrors :
          LET item == confirmed_merges[mi]
              r == execute_category_merge(conn, item.from, item.to, err)
              merged == r.from_id # None /\ r.from_id # r.to_id
              written == {id \in DOMAIN conn.papers : r.db.papers[id] # conn.papers[id]}
              half == r.raised /\ written # {}
          IN  /\ conn' = r.db
              /\ tasks_to_delete' = IF merged THEN tasks_to_delete \cup {r.from_id}
                                    ELSE tasks_to_delete
              /\ successful_updates' = IF merged THEN successful_updates + 1
                                       ELSE successful_updates
              /\ halfWritten' = IF half THEN halfWritten \cup written
                                ELSE halfWritten \ written
              /\ mergeErrors' = IF r.raised THEN mergeErrors + 1 ELSE mergeErrors
    /\ mi' = mi + 1
    /\ UNCHANGED <<dbVars, NotMerge, mpc, confirmed_merges, db0, deletedReferenced>>

\* the end of phase 1's `with conn`: COMMIT
Phase1Commit ==
    /\ mpc = "phase1"
    /\ mi > Len(confirmed_merges)
    /\ Commit(conn)
    /\ mpc' = IF tasks_to_delete # {} THEN "phase2" ELSE "done"
    /\ UNCHANGED <<NotMerge, confirmed_merges, mi, tasks_to_delete, successful_updates,
                   conn, db0, halfWritten, deletedReferenced, mergeErrors>>

\* phase 2, one DELETE of the loop over tasks_to_delete (a set: any order)
Phase2Delete ==
    /\ mpc = "phase2"
    /\ \E task_id \in tasks_to_delete :
          /\ conn' = DeleteTask(conn, task_id)
          /\ tasks_to_delete' = tasks_to_delete \ {task_id}
          /\ deletedReferenced' = (deletedReferenced \/ Referenced(conn, task_id))
          /\ halfWritten' = halfWritten \ {id \in DOMAIN conn.papers : conn.papers[id].task_id = task_id}
    /\ UNCHANGED <<dbVars, NotMerge, mpc, confirmed_merges, mi, successful_updates, db0, mergeErrors>>

\* the end of phase 2's `with conn`: COMMIT; the response is sent
Phase2Commit ==
    /\ mpc = "phase2"
    /\ tasks_to_delete = {}
    /\ Commit(conn)
    /\ mpc' = "done"
    /\ UNCHANGED <<NotMerge, confirmed_merges, mi, tasks_to_delete, successful_updates,
                   conn, db0, halfWritten, deletedReferenced, mergeErrors>>

\* a store as ingestion leaves it: the categories catA, catB, catC, and NumMergePapers
\* papers, each classified into one of them, each with its summary vector's row
MergeStore(taskOf) ==
    [domains |-> <<"d1", "d2">>,
     tasks |-> <<[name |-> "tA", domain_id |-> 1], [name |-> "tB", domain_id |-> 1],
                 [name |-> "tC", domain_id |-> 2]>>,
     papers |-> [k \in 1..NumMergePapers |->
                    [arxiv_id |-> k, domain_id |-> IF taskOf[k] = 3 THEN 2 ELSE 1,
                     task_id |-> taskOf[k], has_generated_summary |-> TRUE,
                     pdf_path |-> SqlText("paper.pdf"),
                     structured_text_path |-> SqlText("paper.json")]],
     vector_metadata |-> [id \in 0..(NumMergePapers - 1) |->
                    [type |-> "paper_summary", source_id |-> id + 1, chunk_seq |-> NULL,
                     domain_id |-> IF taskOf[id + 1] = 3 THEN 2 ELSE 1,
                     task_id |-> taskOf[id + 1],
                     content_preview |-> <<id + 1, 0>>]],
     seq |-> [domains |-> 2, tasks |-> 3, papers |-> NumMergePapers]]

\* the papers are numbered category by category: a merge looks at no paper id, so
\* the other numberings behave alike
InitMerge ==
    /\ \E taskOf \in [1..NumMergePapers -> 1..3] :
          LET db == MergeStore(taskOf)
          IN  /\ \A k \in 1..(NumMergePapers - 1) : taskOf[k] <= taskOf[k + 1]
              /\ domains = db.domains
              /\ tasks = db.tasks
              /\ papers = db.papers
              /\ vector_metadata = db.vector_metadata
              /\ sqlite_sequence = db.seq
              /\ conn = db
              /\ db0 = db
    /\ index = [id \in 1..NumMergePapers |-> <<id, 0>>]
    /\ indexFile = index
    /\ lock = "free"
    /\ w = [p \in Workers |-> IdleWorker]
    /\ runs = 0
    /\ createdBy = [k \in 1..NumMergePapers |-> 0]
    /\ runsDone = [a \in ArxivIds |-> FALSE]
    /\ appendLog = {}
    /\ restarts = 0
    /\ fresh = TRUE
    /\ mpc = "idle"
    /\ confirmed_merges = <<>>
    /\ mi = 0
    /\ tasks_to_delete = {}
    /\ successful_updates = 0
    /\ halfWritten = {}
    /\ deletedReferenced = FALSE
    /\ mergeErrors = 0
    /\ ppc = "idle"
    /\ flat_categories = {}
    /\ candidate_clusters = <<>>
    /\ ci = 0
    /\ groupsLeft = 0
    /\ group = <<>>
    /\ arbitration_result = NoCanonicalForm
    /\ final_proposals = <<>>
    /\ StartupDone
    /\ GocIdle
    /\ QueryIdle
    /\ JsonIdle
    /\ ThreadsIdle
    /\ RagIdle
    /\ RetrIdle
    /\ DailyIdle

NextMerge ==
    \/ ExecuteMergesRequest
    \/ Phase1Merge
    \/ Phase1Commit
    \/ Phase2Delete
    \/ Phase2Commit

SpecMerge == InitMerge /\ [][NextMerge]_vars

\* --------------------------------------------------- category merge claims
\* every non-null task_id of papers and vector_metadata names a task row
TaskRefsExist(db) ==
    /\ \A id \in DOMAIN db.papers :
          db.papers[id].task_id # NULL => db.papers[id].task_id \in DOMAIN db.tasks
    /\ \A id \in DOMAIN db.vector_metadata :
          db.vector_metadata[id].task_id # NULL
              => db.vector_metadata[id].task_id \in DOMAIN db.tasks

\* C5: for every confirmed_merges list (chains in any order and cycles included) each
\* task row deleted in phase 2 is named by no Paper and no VectorMetadata row when it is
\* deleted, and after execution every non-null task_id of Paper and VectorMetadata
\* names an existing task row. Stated for the runs in which no storage error was
\* raised, so that a violation owes nothing to a failed merge.
C5_DeleteOnlyUnreferenced ==
    mergeErrors = 0 =>
        /\ ~deletedReferenced
        /\ mpc = "done" => TaskRefsExist(TheDb)

\* the list [A -> B, B -> C]
Chain(A, B, C) == <<[from |-> A, to |-> B], [from |-> B, to |-> C]>>

\* the rows of a table that named one of the given tasks when the request arrived
RowsAt(table0, ids) == {id \in DOMAIN table0 : table0[id].task_id \in ids \ {NULL}}

\* a row names category cat in the store db
PointsAt(db, row, cat) ==
    /\ row.task_id # NULL
    /\ row.task_id = CatTaskId(db, cat)
    /\ row.domain_id = DomainIdOf(db.domains, cat.domain)

\* C6: after the executor has run [A -> B, B -> C] (A, B, C distinct, no storage error)
\* every Paper and VectorMetadata row that named task A or task B before the run names
\* (C's domain, C's task), and the task rows of A and B no longer exist.
C6_ChainInOrder ==
    \A A \in Categories, B \in Categories, C \in Categories :
        (/\ mpc = "done"
         /\ mergeErrors = 0
         /\ Cardinality({A, B, C}) = 3
         /\ confirmed_merges = Chain(A, B, C))
        => LET before == {CatTaskId(db0, A), CatTaskId(db0, B)}
           IN  /\ \A id \in RowsAt(db0.papers, before) : PointsAt(TheDb, papers[id], C)
               /\ \A id \in RowsAt(db0.vector_metadata, before) :
                     PointsAt(TheDb, vector_metadata[id], C)
               /\ CatTaskId(TheDb, A) = NULL
               /\ CatTaskId(TheDb, B) = NULL
               /\ before \cap DOMAIN tasks = {}

\* [catA -> catB, catB -> catC] has been executed on a store with a paper in catA and
\* a paper in catB
C6_Witness ==
    /\ mpc = "done"
    /\ mergeErrors = 0
    /\ confirmed_merges = Chain(catA, catB, catC)
    /\ \E i \in DOMAIN db0.papers, j \in DOMAIN db0.papers :
          /\ db0.papers[i].task_id = CatTaskId(db0, catA)
          /\ db0.papers[j].task_id = CatTaskId(db0, catB)
          /\ PointsAt(TheDb, papers[i], catC)
          /\ PointsAt(TheDb, vector_metadata[j - 1], catC)

\* C10: a merge is all-or-nothing: once the executor's phase 1 transaction has ended,
\* no Paper row is left as written by a merge whose vector_metadata update raised a
\* storage error.
C10_NoHalfWrittenMerge ==
    mpc \in {"phase2", "done"} => halfWritten = {}

\* ------------------------------------------- category merge: proposals
\* agents/ingestion_agent.py propose_category_merges. The clustering and the two
\* questions put to the language model are outside the program: the clustering is any
\* partition of the loaded categories, an answer is any list of groups over the
\* categories of ProposeCats (those the store does not hold included) and any
\* canonical_form, or none.

\* the most synonym groups one answer holds
MaxGroups == 2
ProposeCats == {catA, catB, catC}
Reason == "AI-Identified Synonym Group"

\* get_all_domains_and_tasks, flattened: one category per task row
get_all_domains_and_tasks(db) ==
    {Category(db.domains[db.tasks[t].domain_id], db.tasks[t].name) : t \in DOMAIN db.tasks}

\* the lists the loop over candidate_clusters can be given: the blocks of a partition
\* that have more than one member
CandidateClusterings(cats) ==
    {cs \in SeqsUpTo(SUBSET cats, Cardinality(cats) \div 2) :
        /\ \A i \in DOMAIN cs : Cardinality(cs[i]) > 1
        /\ \A i, j \in DOMAIN cs : i # j => cs[i] \cap cs[j] = {}}

\* a synonym group as the service can return it: a list, repetitions allowed
SynonymGroups == SeqsUpTo(ProposeCats, Cardinality(ProposeCats))

\* a plan that also names the canonical form as a source
RECURSIVE ProposalsFor_NoFilter(_, _)
ProposalsFor_NoFilter(g, canonical_form) ==
    IF g = <<>> THEN <<>>
    ELSE <<[from |-> Head(g), to |-> canonical_form, reason |-> Reason]>>
         \o ProposalsFor_NoFilter(Tail(g), canonical_form)

\* step 3c: the merge plan of one group
RECURSIVE ProposalsFor(_, _)
ProposalsFor(g, canonical_form) ==
    IF g = <<>> THEN <<>>
    ELSE (IF Head(g) # canonical_form
          THEN <<[from |-> Head(g), to |-> canonical_form, reason |-> Reason]>>
          ELSE <<>>)
         \o ProposalsFor(Tail(g), canonical_form)

\* one iteration that trusts the canonical form without looking for it in the group
GroupProposals_NoMemberCheck(g, result) ==
    IF Len(g) < 2 THEN <<>>
    ELSE IF result = NoCanonicalForm THEN <<>>
    ELSE ProposalsFor(g, result)

\* one iteration of the loop over synonym_groups: what it appends to final_proposals
GroupProposals(g, result) ==
    IF Len(g) < 2 THEN <<>>
    ELSE IF result = NoCanonicalForm THEN <<>>
    ELSE IF result \notin Range(g) THEN <<>>
    ELSE ProposalsFor(g, result)

\* the categories are loaded; fewer than two, or a failed encoding, ends the run
ProposeStart ==
    /\ ppc = "idle"
    /\ LET cats == get_all_domains_and_tasks(TheDb)
       IN  /\ flat_categories' = cats
           /\ IF Cardinality(cats) < 2
              THEN /\ ppc' = "done"
                   /\ UNCHANGED <<candidate_clusters, ci>>
              ELSE \/ /\ ppc' = "failed"
                      /\ UNCHANGED <<candidate_clusters, ci>>
                   \/ \E cs \in CandidateClusterings(cats) :
                         /\ candidate_clusters' = cs
                         /\ ci' = 1
                         /\ ppc' = "cluster"
    /\ UNCHANGED <<NotPropose, groupsLeft, group, arbitration_result, final_proposals>>

\* step 3a: the subsets of one cluster are asked for; no usable answer skips the cluster
SubsetQuery ==
    /\ ppc = "cluster"
    /\ ci <= Len(candidate_clusters)
    /\ \E n \in 0..MaxGroups :
          IF n = 0
          THEN /\ ci' = ci + 1
               /\ UNCHANGED <<ppc, groupsLeft>>
          ELSE /\ groupsLeft' = n
               /\ ppc' = "group"
               /\ UNCHANGED ci
    /\ UNCHANGED <<NotPropose, flat_categories, candidate_clusters, group,
                   arbitration_result, final_proposals>>

\* steps 3b and 3c for the next group of the answer
ArbitrateGroup ==
    /\ ppc = "group"
    /\ groupsLeft > 0
    /\ \E g \in SynonymGroups, result \in ProposeCats \cup {NoCanonicalForm} :
          /\ group' = g
          /\ arbitration_result' = IF Len(g) < 2 THEN arbitration_result ELSE result
          /\ final_proposals' = final_proposals \o GroupProposals(g, result)
    /\ groupsLeft' = groupsLeft - 1
    /\ UNCHANGED <<NotPropose, ppc, flat_categories, candidate_clusters, ci>>

\* the groups of the cluster are exhausted
GroupsDone ==
    /\ ppc = "group"
    /\ groupsLeft = 0
    /\ ci' = ci + 1
    /\ ppc' = "cluster"
    /\ UNCHANGED <<NotPropose, flat_categories, candidate_clusters, groupsLeft, group,
                   arbitration_result, final_proposals>>

\* return {"proposals": final_proposals}
ProposeReturn ==
    /\ ppc = "cluster"
    /\ ci > Len(candidate_clusters)
    /\ ppc' = "done"
    /\ UNCHANGED <<NotPropose, flat_categories, candidate_clusters, ci, groupsLeft, group,
                   arbitration_result, final_proposals>>

\* the store after the categories of cats were added in turn
RECURSIVE AddCategories(_, _)
AddCategories(db, cats) ==
    IF cats = <<>> THEN db
    ELSE LET d == add_or_get_domain(db, Head(cats).domain)
             t == add_or_get_task(d.db, Head(cats).task, d.id)
         IN  AddCategories(t.db, Tail(cats))

InitPropose ==
    /\ \E S \in SUBSET ProposeCats :
          LET db == AddCategories(EmptyDb, SelectSeq(<<catA, catB, catC>>, LAMBDA c : c \in S))
          IN  /\ domains = db.domains
              /\ tasks = db.tasks
              /\ papers = db.papers
              /\ vector_metadata = db.vector_metadata
              /\ sqlite_sequence = db.seq
              /\ conn = db
              /\ db0 = db
    /\ index = <<>>
    /\ indexFile = <<>>
    /\ lock = "free"
    /\ w = [p \in Workers |-> IdleWorker]
    /\ runs = 0
    /\ createdBy = <<>>
    /\ runsDone = [a \in ArxivIds |-> FALSE]
    /\ appendLog = {}
    /\ restarts = 0
    /\ fresh = TRUE
    /\ mpc = "idle"
    /\ confirmed_merges = <<>>
    /\ mi = 0
    /\ tasks_to_delete = {}
    /\ successful_updates = 0
    /\ halfWritten = {}
    /\ deletedReferenced = FALSE
    /\ mergeErrors = 0
    /\ ppc = "idle"
    /\ flat_categories = {}
    /\ candidate_clusters = <<>>
    /\ ci = 0
    /\ groupsLeft = 0
    /\ group = <<>>
    /\ arbitration_result = NoCanonicalForm
    /\ final_proposals = <<>>
    /\ StartupDone
    /\ GocIdle
    /\ QueryIdle
    /\ JsonIdle
    /\ ThreadsIdle
    /\ RagIdle
    /\ RetrIdle
    /\ DailyIdle

NextPropose ==
    \/ ProposeStart
    \/ SubsetQuery
    \/ ArbitrateGroup
    \/ GroupsDone
    \/ ProposeReturn

SpecPropose == InitPropose /\ [][NextPropose]_vars

\* ------------------------------------------- category merge: proposal claims

\* C7: every "from" and every "to" of the proposals is a category of the list loaded
\* from the store, whatever the language model returns.
C7_ProposalsNameStoredCategories ==
    \A i \in DOMAIN final_proposals :
        /\ final_proposals[i].from \in flat_categories
        /\ final_proposals[i].to \in flat_categories

\* C8: no proposal has its "from" equal to its "to".
C8_NoSelfMerge ==
    \A i \in DOMAIN final_proposals : final_proposals[i].from # final_proposals[i].to

\* the canonical form stood twice in the group and was passed over both times
C8_Witness ==
    /\ ppc = "done"
    /\ group = <<catA, catB, catA>>
    /\ arbitration_result = catA
    /\ final_proposals = <<[from |-> catB, to |-> catA, reason |-> Reason]>>

MaxRequests == 2
\* the vectors a persisted index can hold
PersistedIndexes == SeqsUpTo({<<"a1", 0>>, <<"a2", 0>>}, 2)

\* _load_or_create_index: the index read from the file if there is one, it can be
\* read and has the model's width; a new empty index in every other case
LoadOrCreateIndex(file, fileD, d, readable) ==
    IF fileD # NULL /\ readable /\ fileD = d
    THEN [index |-> file, indexD |-> fileD, up |-> TRUE]
    ELSE [index |-> <<>>, indexD |-> d, up |-> TRUE]

\* initialize_embedding_engine: RuntimeError leaves the global at None
InitializeEmbeddingEngine ==
    /\ spc = "embedding_engine"
    /\ \E ok \in BOOLEAN : services' = [services EXCEPT !.embedding_engine = ok]
    /\ spc' = "vector_db"
    /\ UNCHANGED <<NotStartup, ingestVars, modelD, dimension, indexFileD, indexD, accepted,
                   api_vector_db_manager>>

\* initialize_vector_db: VectorDBManager() raises without an embedding engine,
\* otherwise takes the model's width and loads or creates the index
InitializeVectorDb ==
    /\ spc = "vector_db"
    /\ IF ~services.embedding_engine
       THEN /\ services' = [services EXCEPT !.vector_db_manager = FALSE]
            /\ UNCHANGED <<dimension, index, indexD>>
       ELSE \E readable \in BOOLEAN :
               LET r == LoadOrCreateIndex(indexFile, indexFileD, modelD, readable)
               IN  /\ dimension' = modelD
                   /\ index' = r.index
                   /\ indexD' = r.indexD
                   /\ services' = [services EXCEPT !.vector_db_manager = r.up]
    /\ spc' = "llm_client"
    /\ UNCHANGED <<NotStartup, indexFile, lock, w, runs, createdBy, runsDone, appendLog,
                   restarts, fresh, modelD, indexFileD, accepted,
                   api_vector_db_manager>>

\* initialize_llm_client: ConnectionError leaves the global at None
InitializeLlmClient ==
    /\ spc = "llm_client"
    /\ \E ok \in BOOLEAN : services' = [services EXCEPT !.llm_client = ok]
    /\ spc' = "reranker"
    /\ UNCHANGED <<NotStartup, ingestVars, modelD, dimension, indexFileD, indexD, accepted,
                   api_vector_db_manager>>

\* initialize_reranker: RuntimeError leaves the global at None
InitializeReranker ==
    /\ spc = "reranker"
    /\ \E ok \in BOOLEAN : services' = [services EXCEPT !.reranker = ok]
    /\ spc' = "hrag_manager"
    /\ UNCHANGED <<NotStartup, ingestVars, modelD, dimension, indexFileD, indexD, accepted,
                   api_vector_db_manager>>

\* initialize_hrag_manager, the return of initialize_core_services and the yield of
\* lifespan: the application serves
InitializeHragManager ==
    /\ spc = "hrag_manager"
    /\ services' = [services EXCEPT !.hrag_manager = TRUE]
    /\ spc' = "serving"
    /\ UNCHANGED <<NotStartup, ingestVars, modelD, dimension, indexFileD, indexD, accepted,
                   api_vector_db_manager>>

\* a workflow or query request reaches its handler
AcceptRequest ==
    /\ spc = "serving"
    /\ accepted < MaxRequests
    /\ accepted' = accepted + 1
    /\ UNCHANGED <<NotStartup, ingestVars, spc, services, modelD, dimension, indexFileD, indexD,
                   api_vector_db_manager>>

\* the process is started: no service yet, on disk a store and possibly an index file
InitStartup ==
    /\ domains = <<>>
    /\ tasks = <<>>
    /\ papers = <<>>
    /\ vector_metadata = <<>>
    /\ sqlite_sequence = [domains |-> 0, tasks |-> 0, papers |-> 0]
    /\ index = <<>>
    /\ \/ indexFileD = NULL /\ indexFile = <<>>
       \/ indexFileD \in Dims /\ indexFile \in PersistedIndexes
    /\ lock = "free"
    /\ w = [p \in Workers |-> IdleWorker]
    /\ runs = 0
    /\ createdBy = <<>>
    /\ runsDone = [a \in ArxivIds |-> FALSE]
    /\ appendLog = {}
    /\ restarts = 0
    /\ fresh = TRUE
    /\ mpc = "idle"
    /\ confirmed_merges = <<>>
    /\ mi = 0
    /\ tasks_to_delete = {}
    /\ successful_updates = 0
    /\ conn = EmptyDb
    /\ db0 = EmptyDb
    /\ halfWritten = {}
    /\ deletedReferenced = FALSE
    /\ mergeErrors = 0
    /\ ppc = "idle"
    /\ flat_categories = {}
    /\ candidate_clusters = <<>>
    /\ ci = 0
    /\ groupsLeft = 0
    /\ group = <<>>
    /\ arbitration_result = NoCanonicalForm
    /\ final_proposals = <<>>
    /\ spc = "embedding_engine"
    /\ services = NoServices
    /\ modelD \in Dims
    /\ dimension = NULL
    /\ indexD = NULL
    /\ accepted = 0
    /\ api_vector_db_manager = services.vector_db_manager
    /\ GocIdle
    /\ QueryIdle
    /\ JsonIdle
    /\ ThreadsIdle
    /\ RagIdle
    /\ RetrIdle
    /\ DailyIdle

NextStartup ==
    \/ InitializeEmbeddingEngine
    \/ InitializeVectorDb
    \/ InitializeLlmClient
    \/ InitializeReranker
    \/ InitializeHragManager
    \/ AcceptRequest

SpecStartup == InitStartup /\ [][NextStartup]_vars

\* ------------------------------------------------------- startup claims

\* the persisted index has another width than the embedding model
DimensionMismatch == indexFileD # NULL /\ indexFileD # modelD

\* C11: when the persisted index has another dimensionality than the embedding
\* model, the vector index manager is never put into service (with a new empty
\* index in place of the persisted one).
C11_MismatchIsFatal ==
    DimensionMismatch => ~services.vector_db_manager

\* C12: the process reaches the serving state, and the API accepts requests, only
\* with the embedding engine, the vector index, the language-model client and the
\* reranker initialized.
C12_ServesOnlyWithAllServices ==
    (spc = "serving" \/ accepted > 0) =>
        /\ services.embedding_engine
        /\ services.vector_db_manager
        /\ services.llm_client
        /\ services.reranker

\* ------------------------------------------- get-or-create of domains and tasks
\* hrag/metadata_db.py _manage_connection, add_or_get_domain, add_or_get_task, called
\* by two connections. A connection sees the committed store, and its own pending
\* writes while it holds the write lock; the lock is taken by the first INSERT of a
\* transaction and given up at COMMIT, or at close(), which discards what is pending.

\* calls looked at in one behaviour
MaxCalls == 3
DomainNames == {"d1", "d2"}
TaskNames == {"tA"}

\* the store as connection c sees it
View(c) == IF writer = c THEN pending ELSE TheDb

\* the key of a call exists in db: the id of its row, else NULL
KeyId(db, call) ==
    IF call.table = "domains" THEN DomainIdOf(db.domains, call.name)
    ELSE TaskIdOf(db.tasks, call.name, call.domain_id)

\* what a call that has returned leaves to be looked at when its transaction ends
CallResult(call, id, conflict) ==
    [table |-> call.table, name |-> call.name, domain_id |-> call.domain_id,
     mode |-> call.mode, id |-> id, conflict |-> conflict]

\* the helper is called: without conn (the wrapper opens a connection of its own) or
\* with the caller's connection, inside the caller's `with conn`
GocCall(c) ==
    /\ gc[c].pc \in {"idle", "in_tx"}
    /\ gcalls < MaxCalls
    /\ gcalls' = gcalls + 1
    /\ \E mode \in IF gc[c].pc = "in_tx" THEN {"joined"} ELSE {"own", "joined"} :
          \/ \E name \in DomainNames :
                gc' = [gc EXCEPT ![c] = [@ EXCEPT !.pc = "select", !.mode = mode,
                          !.table = "domains", !.name = name, !.domain_id = NULL]]
          \/ \E name \in TaskNames, domain_id \in DOMAIN View(c).domains :
                gc' = [gc EXCEPT ![c] = [@ EXCEPT !.pc = "select", !.mode = mode,
                          !.table = "tasks", !.name = name, !.domain_id = domain_id]]
    /\ UNCHANGED <<dbVars, NotGoc, writer, pending, glog>>

\* the SELECT: a row found is returned
GocSelect(c) ==
    /\ gc[c].pc = "select"
    /\ LET found == KeyId(View(c), gc[c])
       IN  gc' = [gc EXCEPT ![c] =
                    IF found # NULL
                    THEN [@ EXCEPT !.pc = IF gc[c].mode = "own" THEN "close" ELSE "in_tx",
                                   !.open = @ \cup {CallResult(gc[c], found, FALSE)}]
                    ELSE [@ EXCEPT !.pc = "insert"]]
    /\ UNCHANGED <<dbVars, NotGoc, writer, pending, glog, gcalls>>

\* the INSERT: lastrowid is returned; sqlite3.Error (the store is locked by the other
\* connection until the busy timeout, or the unique constraint fails because the
\* other connection has committed the key meanwhile) is caught and None is returned
GocInsert(c) ==
    /\ gc[c].pc = "insert"
    /\ LET after == IF gc[c].mode = "own" THEN "close" ELSE "in_tx"
       IN  IF writer \notin {"none", c}
           THEN /\ gc' = [gc EXCEPT ![c] = [@ EXCEPT !.pc = after,
                             !.open = @ \cup {CallResult(gc[c], None, FALSE)}]]
                /\ UNCHANGED <<writer, pending>>
           ELSE IF KeyId(View(c), gc[c]) # NULL
           THEN /\ gc' = [gc EXCEPT ![c] = [@ EXCEPT !.pc = after,
                             !.open = @ \cup {CallResult(gc[c], None, TRUE)}]]
                /\ UNCHANGED <<writer, pending>>
           ELSE LET r == IF gc[c].table = "domains"
                         THEN add_or_get_domain(View(c), gc[c].name)
                         ELSE add_or_get_task(View(c), gc[c].name, gc[c].domain_id)
                IN  /\ pending' = r.db
                    /\ writer' = c
                    /\ gc' = [gc EXCEPT ![c] = [@ EXCEPT !.pc = after,
                                 !.open = @ \cup {CallResult(gc[c], r.id, FALSE)}]]
    /\ UNCHANGED <<dbVars, NotGoc, glog, gcalls>>

\* the wrapper's finally: the connection it opened is closed, nothing was committed
GocClose(c) ==
    /\ gc[c].pc = "close"
    /\ writer' = IF writer = c THEN "none" ELSE writer
    /\ glog' = glog \cup gc[c].open
    /\ gc' = [gc EXCEPT ![c] = IdleCaller]
    /\ UNCHANGED <<dbVars, NotGoc, pending, gcalls>>

\* the end of the caller's `with conn`: COMMIT
GocCommit(c) ==
    /\ gc[c].pc = "in_tx"
    /\ IF writer = c THEN Commit(pending) /\ writer' = "none"
       ELSE UNCHANGED <<dbVars, writer>>
    /\ glog' = glog \cup gc[c].open
    /\ gc' = [gc EXCEPT ![c] = IdleCaller]
    /\ UNCHANGED <<NotGoc, pending, gcalls>>

InitGoc ==
    /\ domains = <<>>
    /\ tasks = <<>>
    /\ papers = <<>>
    /\ vector_metadata = <<>>
    /\ sqlite_sequence = [domains |-> 0, tasks |-> 0, papers |-> 0]
    /\ index = <<>>
    /\ indexFile = <<>>
    /\ lock = "free"
    /\ w = [p \in Workers |-> IdleWorker]
    /\ runs = 0
    /\ createdBy = <<>>
    /\ runsDone = [a \in ArxivIds |-> FALSE]
    /\ appendLog = {}
    /\ restarts = 0
    /\ fresh = TRUE
    /\ mpc = "idle"
    /\ confirmed_merges = <<>>
    /\ mi = 0
    /\ tasks_to_delete = {}
    /\ successful_updates = 0
    /\ conn = EmptyDb
    /\ db0 = EmptyDb
    /\ halfWritten = {}
    /\ deletedReferenced = FALSE
    /\ mergeErrors = 0
    /\ ppc = "idle"
    /\ flat_categories = {}
    /\ candidate_clusters = <<>>
    /\ ci = 0
    /\ groupsLeft = 0
    /\ group = <<>>
    /\ arbitration_result = NoCanonicalForm
    /\ final_proposals = <<>>
    /\ StartupDone
    /\ GocIdle
    /\ QueryIdle
    /\ JsonIdle
    /\ ThreadsIdle
    /\ RagIdle
    /\ RetrIdle
    /\ DailyIdle

NextGoc ==
    \E c \in Conns :
        \/ GocCall(c)
        \/ GocSelect(c)
        \/ GocInsert(c)
        \/ GocClose(c)
        \/ GocCommit(c)

SpecGoc == InitGoc /\ [][NextGoc]_vars

\* ------------------------------------------- get-or-create claims

\* the row a call returned is in the committed store
RowExists(e) ==
    /\ e.id \in DOMAIN (IF e.table = "domains" THEN domains ELSE tasks)
    /\ IF e.table = "domains" THEN domains[e.id] = e.name
       ELSE tasks[e.id] = [name |-> e.name, domain_id |-> e.domain_id]

SameKey(e, f) == e.table = f.table /\ e.name = f.name /\ e.domain_id = f.domain_id

\* C13: in both calling modes, after a call has returned an id for a key and the call
\* (or the caller's transaction) has ended, the row with that id and key is in the
\* store, and all calls with the same key return the same id; no key has two rows.
C13_GetOrCreateIdempotent ==
    /\ \A e \in glog : e.id # None => RowExists(e)
    /\ \A e, f \in glog : (SameKey(e, f) /\ e.id # None /\ f.id # None) => e.id = f.id
    /\ \A i, j \in DOMAIN domains : domains[i] = domains[j] => i = j
    /\ \A i, j \in DOMAIN tasks : tasks[i] = tasks[j] => i = j

\* C14: a caller whose INSERT hits the unique constraint, because another connection
\* created the key, gets the id of the existing row and not a null id.
C14_ConflictReturnsExistingId ==
    \A c \in Conns : \A e \in gc[c].open \cup glog : e.conflict => e.id # None

\* ------------------------------------------------------- query workflow
\* workflows/query_flow.py QueryWorkflow.run_stream, consumed by the /api/query
\* handler. What the embedding model, the index search, the reranker, the web search
\* and the language model answer is outside the program.

\* MAX_RELEVANT_PAPERS of the run (configurable)
MaxRelevantPapers == 2
\* TOP_K_RESULTS of the run (configurable)
TopK == 3
\* most vectors in the index a query finds
MaxVectors == 3
\* content_preview of a row: empty, or one of two texts
Previews == {"", "t1", "t2"}
\* the arxiv ids the web search can lead to
OnlineIds == {"o1", "o2", "o3"}

QueryMeta(source_id, content_preview) ==
    [type |-> "raw_chunk", source_id |-> source_id, chunk_seq |-> 0, domain_id |-> NULL,
     task_id |-> NULL, content_preview |-> content_preview]

\* the orders a scoring can put n documents in
Perms(n) == {f \in [1..n -> 1..n] : \A i, j \in 1..n : f[i] = f[j] => i = j}

\* VectorDBManager.search: empty arrays on an index without vectors, else k ids, the
\* nearest first, padded with -1 when the index holds fewer than k vectors
VectorSearch(idx, k) ==
    IF Len(idx) = 0 THEN {<<>>}
    ELSE {ids \in [1..k -> -1..(Len(idx) - 1)] :
            /\ \A i \in 1..k : (ids[i] >= 0) <=> (i <= Len(idx))
            /\ \A i, j \in 1..k : (ids[i] >= 0 /\ ids[i] = ids[j]) => i = j}

\* retrieved_ids.any(): some element is not zero
RetrievedAny(ids) == \E i \in DOMAIN ids : ids[i] # 0

\* the ids with a metadata row that has a content_preview, in retrieval order
CandidateIds(vm, ids) ==
    SelectSeq(ids, LAMBDA id : id >= 0 /\ id \in DOMAIN vm /\ vm[id].content_preview # "")

\* doc_map: keyed by content, a later row with the same content replaces an earlier one
DocMap(vm, cand) ==
    [c \in {vm[cand[i]].content_preview : i \in DOMAIN cand} |->
        vm[cand[Max({i \in DOMAIN cand : vm[cand[i]].content_preview = c})]]]

\* a selection that takes the best N documents as they come
RECURSIVE SelectTop_NoDedup(_, _, _, _)
SelectTop_NoDedup(reranked, doc_map, top, N) ==
    IF reranked = <<>> \/ Len(top) >= N THEN top
    ELSE SelectTop_NoDedup(Tail(reranked), doc_map, Append(top, doc_map[Head(reranked)]), N)

\* the loop over reranked_docs_with_scores: at most N rows, one per source_id
RECURSIVE SelectTop(_, _, _, _)
SelectTop(reranked, doc_map, top, N) ==
    IF reranked = <<>> \/ Len(top) >= N THEN top
    ELSE LET meta == doc_map[Head(reranked)]
             seen_source_ids == {top[i].source_id : i \in DOMAIN top}
         IN  SelectTop(Tail(reranked), doc_map,
                       IF meta.source_id \notin seen_source_ids THEN Append(top, meta) ELSE top,
                       N)

\* the rows of top whose paper get_paper_details_by_id finds
WithPaperDetails(pp, top) == SelectSeq(top, LAMBDA m : PaperRows(pp, m.source_id) # {})

\* _agent_filter_online_summaries: the candidates whose id the answer names
AgentFilter(fetched, result) ==
    IF result = {"invalid"} THEN <<>>
    ELSE SelectSeq(fetched, LAMBDA a : a \in result)

\* final_sources: the ids of final_papers, each once
RECURSIVE FinalSources(_)
FinalSources(fp) ==
    IF fp = <<>> THEN <<>>
    ELSE LET before == FinalSources(SubSeq(fp, 1, Len(fp) - 1))
         IN  IF fp[Len(fp)] \in Range(before) THEN before ELSE Append(before, fp[Len(fp)])

\* a test that never takes the not-found branch
NoPapers_Never(fp) == FALSE

\* `if not final_papers`
NoPapers(fp) == fp = <<>>

\* run_stream is entered; the local path announces the retrieval
QueryStart ==
    /\ qpc = "idle"
    /\ \E online \in BOOLEAN :
          /\ online_search_enabled' = online
          /\ events' = IF online THEN <<>> ELSE <<"progress">>
    /\ qpc' = "retrieve"
    /\ UNCHANGED <<NotQuery, raised, top_reranked_metas, walked, context_parts, online_papers,
                   final_papers, synthCalled, final_data>>

\* _retrieve_local_context; an exception of the embedding model, the search, the
\* store or the reranker leaves run_stream, and the handler sends an error event
LocalRetrieve ==
    /\ qpc = "retrieve"
    /\ ~online_search_enabled
    /\ \/ /\ raised' = TRUE
          /\ events' = Append(events, "error")
          /\ qpc' = "done"
          /\ UNCHANGED <<top_reranked_metas, walked, context_parts, final_papers>>
       \/ /\ \E ids \in VectorSearch(index, TopK) \cup {<<>>} :
                LET cand == CandidateIds(vector_metadata, ids)
                IN  \E order \in Perms(Len(cand)) :
                       LET reranked == [i \in DOMAIN cand |->
                                           vector_metadata[cand[order[i]]].content_preview]
                           top == IF RetrievedAny(ids)
                                  THEN SelectTop(reranked, DocMap(vector_metadata, cand),
                                                 <<>>, MaxRelevantPapers)
                                  ELSE <<>>
                           found == WithPaperDetails(papers, top)
                       IN  /\ top_reranked_metas' = top
                           /\ walked' = IF RetrievedAny(ids)
                                        THEN [i \in DOMAIN cand |->
                                                vector_metadata[cand[order[i]]].source_id]
                                        ELSE <<>>
                           /\ context_parts' = [i \in DOMAIN found |-> found[i].source_id]
                           /\ final_papers' = [i \in DOMAIN found |-> found[i].source_id]
          /\ qpc' = "answer"
          /\ UNCHANGED <<raised, events>>
    /\ UNCHANGED <<NotQuery, online_search_enabled, online_papers, synthCalled, final_data>>

\* _perform_online_search, its events passed on by run_stream
OnlineSearch ==
    /\ qpc = "retrieve"
    /\ online_search_enabled
    /\ \/ /\ events' = events \o <<"error">>
          /\ UNCHANGED <<online_papers, final_papers>>
       \/ /\ events' = events \o <<"progress", "progress", "error">>
          /\ UNCHANGED <<online_papers, final_papers>>
       \/ /\ events' = events \o <<"progress", "progress">>
          /\ UNCHANGED <<online_papers, final_papers>>
       \/ /\ events' = events \o <<"progress", "progress", "progress">>
          /\ UNCHANGED <<online_papers, final_papers>>
       \/ /\ events' = events \o <<"progress", "progress", "progress", "progress">>
          /\ \E fetched \in SeqsUpTo(OnlineIds, Cardinality(OnlineIds)) :
                /\ \A i, j \in DOMAIN fetched : fetched[i] = fetched[j] => i = j
                /\ online_papers' = fetched
                /\ \E result \in {{"invalid"}} \cup SUBSET (OnlineIds \cup {"o0"}) :
                      final_papers' = IF fetched = <<>> THEN <<>>
                                      ELSE AgentFilter(fetched, result)
    /\ qpc' = "answer"
    /\ UNCHANGED <<NotQuery, online_search_enabled, raised, top_reranked_metas, walked,
                   context_parts, synthCalled, final_data>>

\* the rest of run_stream: the not-found answer, or the synthesis and the final event
Answer ==
    /\ qpc = "answer"
    /\ IF NoPapers(final_papers)
       THEN /\ events' = Append(events, "final")
            /\ final_data' = [answer |-> "not_found", sources |-> <<>>]
            /\ UNCHANGED synthCalled
       ELSE /\ synthCalled' = TRUE
            /\ events' = events \o <<"progress", "final">>
            /\ \E final_answer \in BOOLEAN :
                  final_data' = IF final_answer
                                THEN [answer |-> "answer", sources |-> FinalSources(final_papers)]
                                ELSE [answer |-> "no_answer", sources |-> <<>>]
    /\ qpc' = "done"
    /\ UNCHANGED <<NotQuery, online_search_enabled, raised, top_reranked_metas, walked,
                   context_parts, online_papers, final_papers>>

\* a store and an index as ingestion and its failures can leave them: up to
\* MaxVectors vectors, a metadata row for some of them, a Paper row for some sources
InitQuery ==
    /\ \E n \in 0..MaxVectors :
          /\ index = [i \in 1..n |-> <<"v", i - 1>>]
          /\ \E present \in SUBSET (0..(n - 1)) :
                vector_metadata \in [present -> {QueryMeta(a, t) : a \in ArxivIds, t \in Previews}]
    /\ \E S \in SUBSET ArxivIds :
          LET ids == SelectSeq(<<"a1", "a2">>, LAMBDA a : a \in S)
          IN  /\ papers = [k \in DOMAIN ids |->
                             [arxiv_id |-> ids[k], domain_id |-> NULL, task_id |-> NULL,
                              has_generated_summary |-> FALSE,
                              pdf_path |-> SqlText("paper.pdf"),
                              structured_text_path |-> SqlText("paper.json")]]
              /\ sqlite_sequence = [domains |-> 0, tasks |-> 0, papers |-> Len(ids)]
    /\ domains = <<>>
    /\ tasks = <<>>
    /\ indexFile = index
    /\ IngestIdle
    /\ MergeIdle
    /\ StartupDone
    /\ GocIdle
    /\ QueryIdle
    /\ JsonIdle
    /\ ThreadsIdle
    /\ RagIdle
    /\ RetrIdle
    /\ DailyIdle

NextQuery ==
    \/ QueryStart
    \/ LocalRetrieve
    \/ OnlineSearch
    \/ Answer

SpecQuery == InitQuery /\ [][NextQuery]_vars

\* --------------------------------------------------- query workflow claims

Distinct(seq) == \A i, j \in DOMAIN seq : seq[i] = seq[j] => i = j

\* the local path has come back from _retrieve_local_context
LocalRetrieved == ~online_search_enabled /\ ~raised /\ qpc \in {"answer", "done"}

\* C15: on the local path the rows selected after reranking have pairwise distinct
\* source_id and are at most MAX_RELEVANT_PAPERS; the context blocks and the final
\* source list name each arxiv_id at most once.
C15_OnePaperOnce ==
    LocalRetrieved =>
        /\ Len(top_reranked_metas) <= MaxRelevantPapers
        /\ Distinct([i \in DOMAIN top_reranked_metas |-> top_reranked_metas[i].source_id])
        /\ Distinct(context_parts)
        /\ Distinct(final_data.sources)

\* two chunks of paper a1 and one of paper a2 were among the candidates, and the
\* answer names both papers
C15_Witness ==
    /\ LocalRetrieved
    /\ qpc = "done"
    /\ DOMAIN vector_metadata = {0, 1, 2}
    /\ vector_metadata[0] = QueryMeta("a1", "t1")
    /\ vector_metadata[1] = QueryMeta("a1", "t2")
    /\ vector_metadata[2] = QueryMeta("a2", "t1")
    /\ Len(final_data.sources) = 2

\* C16: every run of the event stream sends exactly one event of type final, as its
\* last event, and only progress or error events before it.
C16_OneFinalEventLast ==
    qpc = "done" =>
        /\ events # <<>>
        /\ events[Len(events)] = "final"
        /\ \A i \in 1..(Len(events) - 1) : events[i] \in {"progress", "error"}

\* C17: with online search disabled, a local retrieval that yields no source paper
\* ends in the not-found final event with an empty source list, without a call of
\* the answer synthesis; a search on an index without vectors returns empty results.
C17_NothingFoundLocally ==
    /\ (LocalRetrieved /\ final_papers = <<>>) =>
          /\ ~synthCalled
          /\ qpc = "done" =>
                /\ final_data = [answer |-> "not_found", sources |-> <<>>]
                /\ events[Len(events)] = "final"
    /\ index = <<>> => VectorSearch(index, TopK) = {<<>>}

\* rows were selected after reranking, none of their papers has a Paper row, and
\* the not-found answer was sent
C17_Witness ==
    /\ LocalRetrieved
    /\ qpc = "done"
    /\ top_reranked_metas # <<>>
    /\ final_papers = <<>>
    /\ final_data.answer = "not_found"

\* C18: on the online path the papers kept after the filtering step are at most
\* MAX_RELEVANT_PAPERS and are among the fetched candidates, whatever ids the
\* filtering service names.
C18_OnlineFilterKeepsAtMostN ==
    (online_search_enabled /\ qpc \in {"answer", "done"}) =>
        /\ Len(final_papers) <= MaxRelevantPapers
        /\ Range(final_papers) \subseteq Range(online_papers)

\* ------------------------------------------------- run_daily_workflow
\* the candidate papers, in the order the arXiv result stream yields them (one entry
\* per paper)
DailyStream == <<"a1", "a2", "a3">>
DailyIds == Range(DailyStream)
\* what extract_authors_and_affiliations_from_ocr and the paper's metadata can name
Affiliations == {"strong_lab", "other_lab"}
Authors == {"strong_author", "other_author"}
\* the configured allow-lists
StrongTeams == {"strong_lab"}
StrongAuthors == {"strong_author"}

\* ingestion_agent.check_strong_team: an affiliation of the paper is on the list
check_strong_team(ocr_affiliations) == ocr_affiliations \cap StrongTeams # {}

\* ingestion_agent.check_strong_author: an author of the paper is on the list
check_strong_author(meta_authors, ocr_authors) ==
    (meta_authors \cup ocr_authors) \cap StrongAuthors # {}

\* pdf_processor.process_paper: download_pdf keeps a file that is already there and
\* leaves none when the download fails; the parser keeps a JSON file that is already
\* there and leaves none when parsing fails (the PDF stays). ok: the paths were returned
process_paper(pdf, json, a, download_ok, parse_ok) ==
    LET has_pdf == a \in pdf \/ download_ok
        has_json == has_pdf /\ (a \in json \/ parse_ok)
    IN  [pdf |-> IF has_pdf THEN pdf \cup {a} ELSE pdf,
         json |-> IF has_json THEN json \cup {a} ELSE json,
         ok |-> has_json]

\* the limit test with > in place of >=
CapReached_OffByOne(final, lim) == Len(final) > lim

\* len(final_papers_for_report) >= limit
CapReached(final, lim) == Len(final) >= lim

\* the cleanup try block of a rejected paper: os.remove of the PDF, then of the JSON;
\* an OSError (err names the file whose removal raised) ends the block
RemoveFiles(pdf, json, a, err) ==
    [pdf |-> IF err = "pdf" THEN pdf ELSE pdf \ {a},
     json |-> IF err = "none" THEN json \ {a} ELSE json]

\* the paper of the current iteration of the quality loop
CurDaily == papers_passed_interest_filter[di]

\* the workflow is triggered: without preferences and without a research plan it returns
DailyStart ==
    /\ dpc = "idle"
    /\ \E user_preferences, research_plan \in BOOLEAN :
          IF ~user_preferences /\ ~research_plan
          THEN /\ dpc' = "done"
               /\ message' = "User preferences and research plan are not set."
          ELSE /\ dpc' = "interest"
               /\ UNCHANGED message
    /\ UNCHANGED <<NotDaily, dbVars, ingestVars>>
    /\ UNCHANGED <<limit, papers_passed_interest_filter, di, final_papers_for_report,
                   pdfFiles, jsonFiles, processed, rejected, handed>>
    /\ UNCHANGED <<taxonomyVars, interestHist>>

\* what the interest test of one candidate comes to: classify_paper_with_rag_context
\* returns None, the classification or the relevance evaluation raises, or the paper is
\* classified and matches (a preferred category or the research plan) or does not
InterestOutcomes == {"null", "raise", "match", "nomatch"}

\* the position of a candidate in the stream
StreamIndex(a) == CHOOSE k \in DOMAIN DailyStream : DailyStream[k] = a

\* _update_known_categories: the file's pairs after one category is written into it
update_known_categories(file, cat) == file \cup {cat}

\* export_categories_to_json: the file's pairs are those of the store
export_categories_to_json(db) == get_all_domains_and_tasks(db)

\* the candidates the stage's loop classifies: those without a Paper row, up to the
\* first one whose classification raises (the except clause around the loop)
InterestStop(n, outcome) ==
    LET raising == {k \in 1..n : /\ ~check_if_paper_exists(DailyStream[k])
                                  /\ outcome[k] = "raise"}
    IN  IF raising = {} THEN n ELSE CHOOSE k \in raising : \A j \in raising : k <= j

\* stage 1: the n papers fetched are walked in order; a paper with a Paper row is
\* skipped; classify_paper writes each candidate category into the taxonomy file
InterestFilter ==
    /\ dpc = "interest"
    /\ \E n \in 0..Len(DailyStream) :
       \E outcome \in [1..n -> InterestOutcomes], cls \in [1..n -> ClassifierOutputs] :
          LET stop == InterestStop(n, outcome)
              raised_at == stop >= 1 /\ outcome[stop] = "raise"
                           /\ ~check_if_paper_exists(DailyStream[stop])
              classified == {k \in 1..stop : /\ ~check_if_paper_exists(DailyStream[k])
                                              /\ outcome[k] # "null"}
              passed == SelectSeq(SubSeq(DailyStream, 1, stop),
                                  LAMBDA a : /\ ~check_if_paper_exists(a)
                                             /\ outcome[StreamIndex(a)] = "match")
              file == categories_json \cup
                      UNION {update_known_categories(categories_json, cls[k]) : k \in classified}
          IN  /\ fetched_n' = n
              /\ handled_n' = stop
              /\ matched' = passed
              /\ categories_json' = file
              /\ lastWrite' = IF classified = {} THEN lastWrite
                              ELSE [kind |-> "patch", file |-> file,
                                    store |-> get_all_domains_and_tasks(TheDb)]
              /\ IF raised_at
                 THEN /\ dpc' = "done"
                      /\ message' = "Failed during interest filtering stage."
                      /\ UNCHANGED <<papers_passed_interest_filter, di>>
                 ELSE IF passed = <<>>
                 THEN /\ dpc' = "done"
                      /\ message' = "No papers passed interest filter."
                      /\ UNCHANGED <<papers_passed_interest_filter, di>>
                 ELSE /\ dpc' = "quality"
                      /\ papers_passed_interest_filter' = passed
                      /\ di' = 1
                      /\ UNCHANGED message
    /\ UNCHANGED <<NotDaily, dbVars, ingestVars>>
    /\ UNCHANGED <<limit, final_papers_for_report, pdfFiles, jsonFiles, processed,
                   rejected, handed>>

\* the head of the quality loop: the end of the list, or the break at the limit
QualityLoopHead ==
    /\ dpc = "quality"
    /\ dpc' = IF di > Len(papers_passed_interest_filter) THEN "ingest"
              ELSE IF CapReached(final_papers_for_report, limit) THEN "ingest"
              ELSE "process"
    /\ UNCHANGED <<NotDaily, dbVars, ingestVars>>
    /\ UNCHANGED <<limit, papers_passed_interest_filter, di, final_papers_for_report,
                   pdfFiles, jsonFiles, message, processed, rejected, handed>>
    /\ UNCHANGED <<taxonomyVars, interestHist>>

\* a. download and parse; without a JSON path the paper is skipped
ProcessPaper ==
    /\ dpc = "process"
    /\ \E download_ok, parse_ok \in BOOLEAN :
          LET r == process_paper(pdfFiles, jsonFiles, CurDaily, download_ok, parse_ok)
          IN  /\ pdfFiles' = r.pdf
              /\ jsonFiles' = r.json
              /\ IF r.ok
                 THEN dpc' = "gate" /\ UNCHANGED di
                 ELSE dpc' = "quality" /\ di' = di + 1
    /\ processed' = Append(processed, [arxiv_id |-> CurDaily,
                                       accepted |-> Len(final_papers_for_report)])
    /\ UNCHANGED <<NotDaily, dbVars, ingestVars>>
    /\ UNCHANGED <<limit, papers_passed_interest_filter, final_papers_for_report,
                   message, rejected, handed>>
    /\ UNCHANGED <<taxonomyVars, interestHist>>

\* b. to d.: the authors and affiliations read from the parsed file (none when reading
\* or extracting raises), the two list checks, and the cleanup of a paper matching neither
QualityGate ==
    /\ dpc = "gate"
    /\ \E extracted \in BOOLEAN, affiliations \in SUBSET Affiliations,
          authors \in SUBSET Authors, meta_authors \in SUBSET Authors,
          err \in {"none", "pdf", "json"} :
          LET ocr_affiliations == IF extracted THEN affiliations ELSE {}
              ocr_authors == IF extracted THEN authors ELSE {}
          IN  IF check_strong_team(ocr_affiliations)
                 \/ check_strong_author(meta_authors, ocr_authors)
              THEN /\ final_papers_for_report' = Append(final_papers_for_report, CurDaily)
                   /\ UNCHANGED <<pdfFiles, jsonFiles, rejected>>
              ELSE LET r == RemoveFiles(pdfFiles, jsonFiles, CurDaily, err)
                   IN  /\ pdfFiles' = r.pdf
                       /\ jsonFiles' = r.json
                       /\ rejected' = rejected \cup {CurDaily}
                       /\ UNCHANGED final_papers_for_report
    /\ di' = di + 1
    /\ dpc' = "quality"
    /\ UNCHANGED <<NotDaily, dbVars, ingestVars>>
    /\ UNCHANGED <<limit, papers_passed_interest_filter, message, processed, handed>>
    /\ UNCHANGED <<taxonomyVars, interestHist>>

\* stage 3: nothing accepted, or process_papers_list(final_papers_for_report)
HandToIngestion ==
    /\ dpc = "ingest"
    /\ IF final_papers_for_report = <<>>
       THEN /\ dpc' = "done"
            /\ message' = "No papers passed quality filter."
            /\ UNCHANGED <<w, runs, fresh, handed>>
       ELSE /\ dpc' = "ingesting"
            /\ handed' = final_papers_for_report
            /\ w' = [w EXCEPT !["w1"] = [IdleWorker EXCEPT
                        !.pc = "loop", !.papers_to_process = final_papers_for_report,
                        !.k = 1, !.run = runs + 1]]
            /\ runs' = runs + 1
            /\ fresh' = FALSE
            /\ UNCHANGED message
    /\ UNCHANGED <<NotDaily, dbVars>>
    /\ UNCHANGED <<index, indexFile, lock, createdBy, runsDone, appendLog, restarts>>
    /\ UNCHANGED <<limit, papers_passed_interest_filter, di, final_papers_for_report,
                   pdfFiles, jsonFiles, processed, rejected>>
    /\ UNCHANGED <<taxonomyVars, interestHist>>

\* the steps of process_papers_list and of the save that follows it
IngestRun(p) ==
    \/ CheckExists(p)
    \/ ProcessPdf(p)
    \/ AddPaper(p)
    \/ Preprocess(p)
    \/ ClassifyTx(p)
    \/ BatchesDone(p)
    \/ Encode(p)
    \/ ReadMaxId(p)
    \/ AcquireLock(p)
    \/ AddVectors(p)
    \/ InsertMeta(p)
    \/ ReturnList(p)
    \/ SaveIndex(p)

\* the report is written and the summary returned
DailyReturn ==
    /\ dpc = "ingesting"
    /\ w["w1"].pc = "idle"
    /\ dpc' = "done"
    /\ message' = "Daily workflow completed."
    /\ \E export_ok \in BOOLEAN :
          IF export_ok
          THEN /\ categories_json' = export_categories_to_json(TheDb)
               /\ lastWrite' = [kind |-> "export", file |-> categories_json',
                                store |-> get_all_domains_and_tasks(TheDb)]
          ELSE UNCHANGED taxonomyVars
    /\ UNCHANGED <<NotDaily, dbVars, ingestVars, interestHist>>
    /\ UNCHANGED <<limit, papers_passed_interest_filter, di, final_papers_for_report,
                   pdfFiles, jsonFiles, processed, rejected, handed>>

\* a store that may hold some of the candidate papers, empty storage directories
InitDaily ==
    /\ \E S \in SUBSET DailyIds :
          LET ids == SelectSeq(DailyStream, LAMBDA a : a \in S)
          IN  /\ papers = [k \in DOMAIN ids |->
                             [arxiv_id |-> ids[k], domain_id |-> NULL, task_id |-> NULL,
                              has_generated_summary |-> FALSE,
                              pdf_path |-> SqlText("paper.pdf"),
                              structured_text_path |-> SqlText("paper.json")]]
              /\ sqlite_sequence = [domains |-> 0, tasks |-> 0, papers |-> Len(ids)]
    /\ domains = <<>>
    /\ tasks = <<>>
    /\ vector_metadata = <<>>
    /\ index = <<>>
    /\ indexFile = <<>>
    /\ IngestIdle
    /\ MergeIdle
    /\ StartupDone
    /\ GocIdle
    /\ QueryIdle
    /\ JsonIdle
    /\ ThreadsIdle
    /\ RagIdle
    /\ RetrIdle
    /\ dpc = "idle"
    /\ limit \in 0..MaxLimit
    /\ papers_passed_interest_filter = <<>>
    /\ di = 0
    /\ final_papers_for_report = <<>>
    /\ pdfFiles = {}
    /\ jsonFiles = {}
    /\ message = ""
    /\ processed = <<>>
    /\ rejected = {}
    /\ handed = <<>>
    /\ categories_json = {}
    /\ lastWrite = NoWrite
    /\ fetched_n = 0
    /\ handled_n = 0
    /\ matched = <<>>

NextDaily ==
    \/ DailyStart
    \/ InterestFilter
    \/ QualityLoopHead
    \/ ProcessPaper
    \/ QualityGate
    \/ HandToIngestion
    \/ IngestRun("w1")
    \/ DailyReturn

SpecDaily == InitDaily /\ [][NextDaily]_vars

\* C19: when the daily workflow has returned, every paper that was downloaded and
\* parsed and matched neither the strong-team nor the strong-author list has no PDF
\* file, no parsed JSON file and no Paper row.
C19_RejectedLeavesNothing ==
    dpc = "done" =>
        \A a \in rejected :
            /\ a \notin pdfFiles
            /\ a \notin jsonFiles
            /\ PaperRows(papers, a) = {}

\* C20: in one run at most DAILY_PAPER_PROCESS_LIMIT papers pass the quality filter
\* and are handed to the ingestion pipeline, and no paper is downloaded or parsed
\* once that many have been accepted.
C20_CapBoundsAcceptedAndDownloads ==
    /\ Len(final_papers_for_report) <= limit
    /\ Len(handed) <= limit
    /\ \A k \in DOMAIN processed : processed[k].accepted < limit

\* the run returned with the limit reached and a paper of the list left untouched
C20_Witness ==
    /\ dpc = "done"
    /\ limit > 0
    /\ Len(handed) = limit
    /\ \E a \in Range(papers_passed_interest_filter) :
          \A k \in DOMAIN processed : processed[k].arxiv_id # a

\* C21: in the interest stage a candidate whose classification or evaluation fails
\* (a null result or a raised error) does not stop the stage: every candidate the
\* source yielded is handled and the papers found to match are kept.
C21_OneFailureDoesNotStopStage ==
    dpc \notin {"idle", "interest"} =>
        /\ handled_n = fetched_n
        /\ papers_passed_interest_filter = matched

\* C22: the taxonomy file is only written by regenerating it from the store: every
\* write is an export and leaves in the file exactly the store's (domain, task) pairs
\* of that moment.
C22_FileOnlyRegeneratedFromStore ==
    lastWrite.kind # "none" =>
        /\ lastWrite.kind = "export"
        /\ lastWrite.file = lastWrite.store

\* ------------------------------------------------- LLMClient.generate_json
\* the configured number of attempts
LLM_JSON_RETRY_ATTEMPTS == 3

\* what one call of the service can come to: the client raises (a timeout included),
\* the content is empty, the content has no fenced block and no bracket, the extracted
\* text is not JSON, it is a JSON object, or it is a fenced block holding the JSON null
ServiceBehaviours == {"raise", "empty", "no_json", "malformed", "object", "fenced_null"}

\* raw_response is None or empty
NoRawResponse(b) == b \in {"raise", "empty"}

\* the extraction and json.loads: whether it parses and the Python value it gives
ParseResponse(b) ==
    IF b = "object" THEN [ok |-> TRUE, value |-> "dict"]
    ELSE IF b = "fenced_null" THEN [ok |-> TRUE, value |-> JsonNull]
    ELSE [ok |-> FALSE, value |-> JsonNull]

\* generate_json is called
JsonCall ==
    /\ jpc = "idle"
    /\ jpc' = "loop"
    /\ attempt' = 0
    /\ responses' = <<>>
    /\ jresult' = JsonNull
    /\ UNCHANGED NotJson

\* one iteration of the for loop: the call, then continue, return, or the next attempt
JsonAttempt ==
    /\ jpc = "loop"
    /\ attempt < LLM_JSON_RETRY_ATTEMPTS
    /\ \E b \in ServiceBehaviours :
          /\ responses' = Append(responses, b)
          /\ IF NoRawResponse(b)
             THEN /\ attempt' = attempt + 1
                  /\ UNCHANGED <<jpc, jresult>>
             ELSE IF ParseResponse(b).ok
             THEN /\ jresult' = ParseResponse(b).value
                  /\ jpc' = "done"
                  /\ UNCHANGED attempt
             ELSE IF attempt < LLM_JSON_RETRY_ATTEMPTS - 1
             THEN /\ attempt' = attempt + 1
                  /\ UNCHANGED <<jpc, jresult>>
             ELSE /\ jresult' = JsonNull
                  /\ jpc' = "done"
                  /\ UNCHANGED attempt
    /\ UNCHANGED NotJson

\* the loop has run out: return None
JsonGiveUp ==
    /\ jpc = "loop"
    /\ attempt >= LLM_JSON_RETRY_ATTEMPTS
    /\ jresult' = JsonNull
    /\ jpc' = "done"
    /\ UNCHANGED <<attempt, responses>>
    /\ UNCHANGED NotJson

InitJson ==
    /\ domains = <<>>
    /\ tasks = <<>>
    /\ papers = <<>>
    /\ vector_metadata = <<>>
    /\ sqlite_sequence = [domains |-> 0, tasks |-> 0, papers |-> 0]
    /\ index = <<>>
    /\ indexFile = <<>>
    /\ IngestIdle
    /\ MergeIdle
    /\ StartupDone
    /\ GocIdle
    /\ QueryIdle
    /\ JsonIdle
    /\ ThreadsIdle
    /\ RagIdle
    /\ RetrIdle
    /\ DailyIdle

NextJson ==
    \/ JsonCall
    \/ JsonAttempt
    \/ JsonGiveUp

SpecJson == InitJson /\ [][NextJson]_vars

\* the calls whose response the extraction and json.loads accepted
ParsedCalls == {k \in DOMAIN responses : ParseResponse(responses[k]).ok}

\* C23: generate_json calls the service at most LLM_JSON_RETRY_ATTEMPTS times, returns
\* the parsed value of the first response that parses without calling again, and
\* returns None if and only if no response parsed.
C23_BoundedRetriesFirstParseWins ==
    /\ Len(responses) <= LLM_JSON_RETRY_ATTEMPTS
    /\ jpc = "done" =>
          /\ \A k \in ParsedCalls :
                /\ k = Len(responses)
                /\ jresult = ParseResponse(responses[k]).value
          /\ (jresult = JsonNull) <=> (ParsedCalls = {})

\* ------------------------------------------------- ingestions and merge executions
\* one workflow at a time on one store, starting empty: calls of process_papers_list
\* with one paper each, and a merge request between or after them
StoreIngest ==
    /\ mpc \in {"idle", "done"}
    /\ \E p \in OneWorker : IngestStep(p, 1)

\* a merge request of one item
StoreMerge ==
    /\ \A p \in Workers : w[p].pc = "idle"
    /\ \/ ExecuteMergesRequestOf(1)
       \/ Phase1Merge
       \/ Phase1Commit
       \/ Phase2Delete
       \/ Phase2Commit

NextStore == StoreIngest \/ StoreMerge

SpecStore == Init /\ [][NextStore]_vars

\* the columns of a VectorMetadata row that nothing may change
FixedColumns(r) == <<r.type, r.source_id, r.chunk_seq, r.content_preview>>

\* C24: VectorMetadata is append-only. No step of an ingestion or of a merge execution
\* removes a row or changes the type, source_id, chunk_seq or content_preview of the
\* row with a given id; a merge changes domain_id and task_id only.
C24_VectorMetadataAppendOnly ==
    [][\A id \in DOMAIN vector_metadata :
          /\ id \in DOMAIN vector_metadata'
          /\ FixedColumns(vector_metadata'[id]) = FixedColumns(vector_metadata[id])]_vars

\* a merge has repointed a row that an ingestion wrote, and the row is still there
C24_Witness ==
    /\ mpc = "done"
    /\ \E id \in DOMAIN db0.vector_metadata :
          /\ id \in DOMAIN vector_metadata
          /\ vector_metadata[id].task_id # db0.vector_metadata[id].task_id

\* ------------------------------------------------- metadata-only ingestion
\* process_papers_list(..., ingestion_mode='metadata_only'), one request at a time
MetadataOnlyStep(p) ==
    \/ StartRunMetadataOnly(p, MaxList)
    \/ CheckExists(p)
    \/ AddPaper(p)
    \/ ClassifyMetadataOnly(p)
    \/ ReturnListMetadataOnly(p)

NextMetaOnly == \E p \in OneWorker : MetadataOnlyStep(p)

SpecMetaOnly == Init /\ [][NextMetaOnly]_vars

\* GET /papers/{arxiv_id}/pdf for a stored paper: the answer, given whether the stored
\* path names a file on disk
get_paper_pdf(details, is_file) ==
    IF details.pdf_path = SqlNull \/ details.pdf_path = SqlText("")
    THEN "404 PDF path not found"
    ELSE IF ~is_file THEN "404 PDF file does not exist" ELSE "FileResponse"

\* C25: every Paper row written by metadata-only ingestion has pdf_path and
\* structured_text_path equal to null, so that a lookup of the paper's PDF path
\* finds no path.
C25_MetadataOnlyPathsNull ==
    \A id \in DOMAIN papers :
        /\ papers[id].pdf_path = SqlNull
        /\ papers[id].structured_text_path = SqlNull
        /\ get_paper_pdf(papers[id], FALSE) = "404 PDF path not found"

\* ------------------------------------------------- failed papers of a list
\* the entries of list at the positions of keep, in list order
RECURSIVE EntriesAt(_, _, _)
EntriesAt(list, keep, k) ==
    IF k > Len(list) THEN <<>>
    ELSE (IF k \in keep THEN <<list[k]>> ELSE <<>>) \o EntriesAt(list, keep, k + 1)

MaxIndexCalls == 3
\* the most vectors one add call brings
MaxBlock == 2

\* a lock that lets every thread in
CanAcquire_Always(t) == TRUE

\* threading.Lock: `with self._lock` is entered only while no thread holds the lock
CanAcquire(t) == lock = "free"

\* a thread calls add(vectors) with n vectors, search(query_vector, k) or save().
\* search returns at once, without the lock, when it reads ntotal = 0.
IndexCall(t) ==
    /\ th[t].pc = "idle"
    /\ icalls < MaxIndexCalls
    /\ icalls' = icalls + 1
    /\ \E op \in {"add", "search", "save"}, n \in 1..MaxBlock :
          th' = [th EXCEPT ![t] =
                    IF op = "search" /\ Len(index) = 0
                    THEN IdleThread
                    ELSE [IdleThread EXCEPT !.pc = "acquire", !.op = op, !.call = icalls + 1,
                                            !.n = IF op = "add" THEN n ELSE 0]]
    /\ UNCHANGED <<index, indexFile, lock>>
    /\ UNCHANGED NotThreads

\* `with self._lock:` is entered
IndexAcquire(t) ==
    /\ th[t].pc = "acquire"
    /\ CanAcquire(t)
    /\ lock' = t
    /\ th' = [th EXCEPT ![t].pc = "inside"]
    /\ UNCHANGED <<index, indexFile, icalls>>
    /\ UNCHANGED NotThreads

\* self.index.add(vectors) appends the next row of the call's block
IndexAddRow(t) ==
    /\ th[t].pc = "inside"
    /\ th[t].op = "add"
    /\ th[t].j < th[t].n
    /\ index' = Append(index, <<t, th[t].call, th[t].j + 1>>)
    /\ th' = [th EXCEPT ![t].j = @ + 1]
    /\ UNCHANGED <<indexFile, lock, icalls>>
    /\ UNCHANGED NotThreads

\* self.index.search(query_vector, k) reads the rows of the index
IndexSearch(t) ==
    /\ th[t].pc = "inside"
    /\ th[t].op = "search"
    /\ th[t].j = 0
    /\ th' = [th EXCEPT ![t].j = 1, ![t].ntotal = Len(index)]
    /\ UNCHANGED <<index, indexFile, lock, icalls>>
    /\ UNCHANGED NotThreads

\* faiss.write_index(cpu_index, path)
IndexWrite(t) ==
    /\ th[t].pc = "inside"
    /\ th[t].op = "save"
    /\ th[t].j = 0
    /\ indexFile' = index
    /\ th' = [th EXCEPT ![t].j = 1]
    /\ UNCHANGED <<index, lock, icalls>>
    /\ UNCHANGED NotThreads

\* the with block is left, by its end or by an exception of the index call: the lock
\* is released either way
IndexRelease(t) ==
    /\ th[t].pc = "inside"
    /\ \E raises \in BOOLEAN :
          raises \/ th[t].j >= (IF th[t].op = "add" THEN th[t].n ELSE 1)
    /\ lock' = IF lock = t THEN "free" ELSE lock
    /\ th' = [th EXCEPT ![t] = IdleThread]
    /\ UNCHANGED <<index, indexFile, icalls>>
    /\ UNCHANGED NotThreads

IndexStep(t) ==
    \/ IndexAcquire(t)
    \/ IndexAddRow(t)
    \/ IndexSearch(t)
    \/ IndexWrite(t)
    \/ IndexRelease(t)

NextIndex == \E t \in Threads : IndexCall(t) \/ IndexStep(t)

SpecIndex == Init /\ [][NextIndex]_vars

\* the rows of one add call lie next to each other, in the order of the call's block
Contiguous(idx) ==
    \A a, b \in DOMAIN idx :
        (a < b /\ idx[a][1] = idx[b][1] /\ idx[a][2] = idx[b][2]) =>
            /\ idx[b][3] = idx[a][3] + (b - a)
            /\ \A m \in a..b : idx[m][2] = idx[a][2]

\* C27: add, search and save exclude each other: at most one thread is inside the
\* index's add, search or write; the rows of two add calls form two blocks that do
\* not interleave; and while a call is under way some thread can take a step (no
\* deadlock).
C27_IndexOpsMutuallyExclusive ==
    /\ Cardinality({t \in Threads : th[t].pc = "inside"}) <= 1
    /\ Contiguous(index)
    /\ (\E t \in Threads : th[t].pc # "idle") => ENABLED (\E t \in Threads : IndexStep(t))

\* two add calls of different threads have both appended a whole block of MaxBlock rows
\* while the other call was under way or waiting
C27_Witness ==
    /\ Len(index) = 2 * MaxBlock
    /\ index[1][1] # index[Len(index)][1]
    /\ \E t \in Threads : th[t].pc = "inside" /\ th[t].op = "add" /\ th[t].j = th[t].n
    /\ \E t \in Threads : th[t].pc = "acquire"

\* ------------------------------------------------- order of append and commit
\* C28: the vectors of a batch are appended to the index before the batch's metadata
\* rows are committed, and a batch whose append raised commits no row: every committed
\* row describes a text whose vector is already in the index.
C28_AppendBeforeCommit ==
    \A id \in DOMAIN vector_metadata :
        \E k \in DOMAIN index : index[k] = vector_metadata[id].content_preview

\* the vectors of a paper's second batch are in the index, its rows are not committed
\* yet, and the rows of the first batch are
C28_Witness ==
    \E p \in Workers :
        /\ w[p].pc = "insert_meta"
        /\ w[p].i > 0
        /\ \E k \in DOMAIN index : index[k] = <<Cur(w[p]), w[p].i>>
        /\ \E id \in DOMAIN vector_metadata : vector_metadata[id].source_id = Cur(w[p])
        /\ \A id \in DOMAIN vector_metadata :
              vector_metadata[id].content_preview # <<Cur(w[p]), w[p].i>>

\* ------------------------------------------------- type and chunk_seq of a paper's rows
\* the place of a row's text in [summary] + text chunks of its paper
OverallPosition(r) == r.content_preview[2]

\* C29: of the rows written for a paper, only the one of the text at overall position 0
\* of [summary] + text chunks has type paper_summary and a null chunk_seq; the row of the
\* text at position p >= 1 has type raw_chunk and chunk_seq = p - 1, in whatever batch
\* it was written; so the chunk_seq values of a paper's rows are distinct and follow
\* the order of the chunks.
C29_SummaryFirstChunkSeqByPosition ==
    /\ \A id \in DOMAIN vector_metadata :
          LET r == vector_metadata[id]
          IN  IF OverallPosition(r) = 0
              THEN r.type = "paper_summary" /\ r.chunk_seq = NULL
              ELSE r.type = "raw_chunk" /\ r.chunk_seq = OverallPosition(r) - 1
    /\ \A id1, id2 \in DOMAIN vector_metadata :
          LET r1 == vector_metadata[id1]
              r2 == vector_metadata[id2]
          IN  (id1 < id2 /\ r1.source_id = r2.source_id
                         /\ r1.type = "raw_chunk" /\ r2.type = "raw_chunk") =>
                 r1.chunk_seq < r2.chunk_seq

\* a paper has the row of its summary and, from a later batch, the row of the batch's
\* first text
C29_Witness ==
    \E id1, id2 \in DOMAIN vector_metadata :
        /\ vector_metadata[id1].source_id = vector_metadata[id2].source_id
        /\ OverallPosition(vector_metadata[id1]) = 0
        /\ OverallPosition(vector_metadata[id2]) = BatchSize
        /\ vector_metadata[id2].chunk_seq = BatchSize - 1

\* ------------------------------------------------- passages with the same preview
\* the first N distinct elements of seq, in order
RECURSIVE FirstDistinct(_, _, _)
FirstDistinct(seq, acc, N) ==
    IF seq = <<>> \/ Len(acc) >= N THEN acc
    ELSE FirstDistinct(Tail(seq),
                       IF Head(seq) \in Range(acc) THEN acc ELSE Append(acc, Head(seq)), N)

\* C30: local retrieval selects exactly the first MAX_RELEVANT_PAPERS distinct source
\* papers met when the candidate passages are walked from the best rerank score down,
\* each passage counted for the paper its own row names, also when passages of
\* different papers have the same content preview.
C30_SelectsFirstDistinctPapers ==
    (qpc \in {"answer", "done"} /\ ~online_search_enabled /\ ~raised) =>
        [i \in DOMAIN top_reranked_metas |-> top_reranked_metas[i].source_id]
            = FirstDistinct(walked, <<>>, MaxRelevantPapers)

\* ------------------------------------------------- RAG-assisted classification
\* agents/ingestion_agent.py classify_paper_with_rag_context. What the classification
\* service and the reranker answer is outside the program.

\* metadata_db.get_papers_by_classification(domain, task): the Paper rows of that category
get_papers_by_classification(db, cat) ==
    {id \in DOMAIN db.papers :
        /\ db.papers[id].domain_id \in DOMAIN db.domains
        /\ db.papers[id].task_id \in DOMAIN db.tasks
        /\ db.domains[db.papers[id].domain_id] = cat.domain
        /\ db.tasks[db.papers[id].task_id].name = cat.task}

\* what generate_json returns for the final prompt: None, an object without the key
\* final_classification, one whose final_classification is a {domain, task} object, one
\* whose final_classification is an object without domain or task, and one whose
\* final_classification is no object (null, a string)
FinalDecisions == {"None", "no_key", "object", "no_domain_or_task", "not_an_object"}

\* the function returns value on the way named branch, after _update_known_categories
RagReturn(branch, value) ==
    /\ rag' = [rag EXCEPT !.pc = "done", !.result = value, !.branch = branch]
    /\ categories_json' = update_known_categories(categories_json, value)
    /\ lastWrite' = [kind |-> "patch", file |-> update_known_categories(categories_json, value),
                     store |-> get_all_domains_and_tasks(TheDb)]

\* stage 1: classify_paper gives the candidate (and writes it into the taxonomy file),
\* or None, which ends the call
RagCandidate ==
    /\ rag.pc = "idle"
    /\ \/ /\ rag' = [rag EXCEPT !.pc = "done", !.result = NoClassification,
                                 !.branch = "no_candidate"]
          /\ UNCHANGED taxonomyVars
       \/ \E candidate_classification \in ClassifierOutputs :
             /\ rag' = [rag EXCEPT !.pc = "retrieve", !.candidate = candidate_classification]
             /\ categories_json' = update_known_categories(categories_json,
                                                           candidate_classification)
             /\ lastWrite' = [kind |-> "patch",
                              file |-> update_known_categories(categories_json,
                                                               candidate_classification),
                              store |-> get_all_domains_and_tasks(TheDb)]
    /\ UNCHANGED NotRag

\* stage 2: the papers of the candidate's category, their usable summaries, the
\* reranking (which may raise) and the references scoring above 0.5
RagRetrieve ==
    /\ rag.pc = "retrieve"
    /\ LET similar_papers_from_db == get_papers_by_classification(TheDb, rag.candidate)
       IN  IF similar_papers_from_db = {}
           THEN RagReturn("no_reference_papers", rag.candidate)
           ELSE \E documents_to_rerank \in SUBSET similar_papers_from_db :
                   IF documents_to_rerank = {}
                   THEN RagReturn("no_usable_summaries", rag.candidate)
                   ELSE \/ RagReturn("reranker_failed", rag.candidate)
                        \/ \E top_references \in SUBSET documents_to_rerank :
                              IF top_references = {}
                              THEN RagReturn("no_strong_reference", rag.candidate)
                              ELSE /\ rag' = [rag EXCEPT !.pc = "final"]
                                   /\ UNCHANGED taxonomyVars
    /\ UNCHANGED NotRag

\* stage 3: the final decision of the service; llm_result["final_classification"] is
\* indexed with "domain" and "task" without a test of its shape
RagFinal ==
    /\ rag.pc = "final"
    /\ \E llm_result \in FinalDecisions :
          CASE llm_result \in {"None", "no_key"} ->
                  RagReturn("no_final_decision", rag.candidate)
            [] llm_result = "object" ->
                  \E final_classification \in Categories :
                     RagReturn("final_decision", final_classification)
            [] OTHER ->
                  /\ rag' = [rag EXCEPT !.pc = "done", !.raised = TRUE,
                                        !.branch = "malformed_final_decision"]
                  /\ UNCHANGED taxonomyVars
    /\ UNCHANGED NotRag

NextRag ==
    \/ RagCandidate
    \/ RagRetrieve
    \/ RagFinal

\* a store that holds classified papers
SpecRag == InitMerge /\ [][NextRag]_vars

\* C31: RAG-assisted classification returns None only when the candidate classification
\* failed; in every other case (no reference papers, no usable summaries, a reranker
\* failure, no reference above 0.5, a missing or malformed final decision) it returns the
\* candidate or the service's final classification, a {domain, task} object, and does
\* not raise.
C31_NullOnlyWithoutCandidate ==
    rag.pc = "done" =>
        /\ ~rag.raised
        /\ (rag.result = NoClassification) <=> (rag.branch = "no_candidate")
        /\ rag.branch # "no_candidate" => rag.result \in {rag.candidate} \cup Categories

\* ------------------------------------------------- retrying a batch
\* paper a is fully ingested: a Paper row with a generated summary, and a paper_summary
\* row whose vector is in the index
FullyIngested(a) ==
    /\ \E id \in PaperRows(papers, a) : papers[id].has_generated_summary
    /\ \E id \in DOMAIN vector_metadata :
          /\ vector_metadata[id].source_id = a
          /\ vector_metadata[id].type = "paper_summary"
          /\ \E k \in DOMAIN index : index[k] = vector_metadata[id].content_preview

\* C32: a batch can be retried safely: every paper in the success list that a full-mode
\* process_papers_list call returns, also one that an earlier call left failed after its
\* Paper row was written, has a Paper row with a generated summary and a paper_summary
\* VectorMetadata row whose vector is in the index.
C32_SuccessMeansFullyIngested ==
    \A p \in Workers :
        (w[p].pc = "save" /\ w[p].ingestion_mode = "full") =>
            \A k \in DOMAIN w[p].successfully_processed_papers :
                FullyIngested(w[p].successfully_processed_papers[k])

\* ------------------------------------------------- the life of the API service
\* lifespan after its yield: the process shuts down; the index is saved if the name
\* vector_db_manager of api/main.py holds a manager
Shutdown ==
    /\ spc = "serving"
    /\ \A p \in Workers : w[p].pc = "idle"
    /\ lock = "free"
    /\ spc' = "stopped"
    /\ indexFile' = IF api_vector_db_manager THEN index ELSE indexFile
    /\ indexFileD' = IF api_vector_db_manager THEN indexD ELSE indexFileD
    /\ UNCHANGED <<NotStartup, index, lock, w, runs, createdBy, runsDone, appendLog, restarts,
                   fresh, services, modelD, dimension, indexD, accepted,
                   api_vector_db_manager>>

\* a daily-workflow request of one paper, served once every service is up
ServeIngest ==
    /\ spc = "serving"
    /\ services = AllServices
    /\ \E p \in OneWorker : IngestStep(p, 1)

NextLifetime ==
    \/ InitializeEmbeddingEngine
    \/ InitializeVectorDb
    \/ InitializeLlmClient
    \/ InitializeReranker
    \/ InitializeHragManager
    \/ ServeIngest
    \/ Shutdown

SpecLifetime == InitStartup /\ [][NextLifetime]_vars

\* C33: when the API service has shut down after a startup in which the Vector Index
\* manager was initialized, the index file holds the in-memory index: every vector
\* appended while the service ran is in the file.
C33_ShutdownSavesIndex ==
    (spc = "stopped" /\ services.vector_db_manager) =>
        /\ Len(indexFile) >= Len(index)
        /\ \A k \in DOMAIN index : indexFile[k] = index[k]

\* ------------------------------------------- category merge: unknown categories
\* a category whose domain no row of the store names
catE == Category("d3", "tE")
\* confirmed_merges is the request's body: its items may name any category, the
\* ones the store does not hold (catD, catE) included
AnyMergeItems == [from : Categories \cup {catE}, to : Categories \cup {catE}]

ExecuteMergesRequestAny == ExecuteMergesRequestFrom(AnyMergeItems, MaxMerges)

NextMergeAny ==
    \/ ExecuteMergesRequestAny
    \/ Phase1Merge
    \/ Phase1Commit
    \/ Phase2Delete
    \/ Phase2Commit

SpecMergeAny == InitMerge /\ [][NextMergeAny]_vars

\* the store held no row for the from category of item i when the request arrived,
\* and no item of the request up to i names it as its to category (which would
\* create it before it is looked up)
FromMissing(i) ==
    /\ CatTaskId(db0, confirmed_merges[i].from) = NULL
    /\ \A j \in 1..i : confirmed_merges[j].to # confirmed_merges[i].from

\* C34: a merge whose from category does not exist changes nothing: once the request
\* whose merges all name a missing from category has ended, nothing was recorded for
\* deletion and the domains, tasks, papers and vector_metadata tables hold what they
\* held when the request arrived (no to domain or task row was created).
C34_MissingFromChangesNothing ==
    (/\ mpc = "done"
     /\ \A i \in DOMAIN confirmed_merges : FromMissing(i)) =>
        /\ successful_updates = 0
        /\ domains = db0.domains
        /\ tasks = db0.tasks
        /\ papers = db0.papers
        /\ vector_metadata = db0.vector_metadata

\* -------------------------------------------------- merge proposals: conflicts
\* C35: the returned proposal list is conflict-free: no category is the from of two
\* proposals with different to, and no category is the from of one proposal and the
\* to of another.
C35_ProposalsConflictFree ==
    ppc = "done" =>
        \A i, j \in DOMAIN final_proposals :
            /\ final_proposals[i].from = final_proposals[j].from
                   => final_proposals[i].to = final_proposals[j].to
            /\ final_proposals[i].from # final_proposals[j].to

\* ------------------------------------------- rows: domain_id and task_id agree
\* the row names a task row, and its domain_id is that task's domain_id
RowConsistent(r) ==
    r.task_id # NULL =>
        /\ r.task_id \in DOMAIN tasks
        /\ r.domain_id = tasks[r.task_id].domain_id

\* C36: in every reachable state every Paper row and every VectorMetadata row with a
\* non-null task_id has the domain_id of the task row it names.
C36_RowsConsistent ==
    /\ \A id \in DOMAIN papers : RowConsistent(papers[id])
    /\ \A id \in DOMAIN vector_metadata : RowConsistent(vector_metadata[id])

\* the same for the rows whose task row is still in the store
RowsConsistentWhereTaskExists ==
    \A r \in Range(papers) \cup Range(vector_metadata) :
        (r.task_id # NULL /\ r.task_id \in DOMAIN tasks) =>
            r.domain_id = tasks[r.task_id].domain_id

\* ------------------------------------------------- local retrieval: one call
NotRetr ==
    <<dbVars, ingestVars, mergeVars, proposeVars, startupVars, gocVars, queryVars, dailyVars,
      jsonVars, threadVars, ragVars>>

\* the return of _retrieve_local_context
RetrReturn(k, ids, branch, source_papers) ==
    lr' = [pc |-> "done", k_results |-> k, retrieved_ids |-> ids,
           source_papers |-> source_papers, branch |-> branch]

\* _retrieve_local_context for a configured TOP_K_RESULTS of 1..TopK: the query is
\* encoded (an empty vector returns at once), the index is searched, the early
\* returns are taken in the order of the code, the candidates are reranked in some
\* order, at most MAX_RELEVANT_PAPERS rows are selected and their papers looked up
RetrieveLocalContext ==
    /\ lr.pc = "idle"
    /\ \E k \in 1..TopK :
          \/ RetrReturn(k, <<>>, "empty_query_vector", <<>>)
          \/ \E ids \in VectorSearch(index, k) :
                LET valid_ids == SelectSeq(ids, LAMBDA id : id >= 0)
                    cand == CandidateIds(vector_metadata, ids)
                IN  IF ~RetrievedAny(ids) THEN RetrReturn(k, ids, "not_any", <<>>)
                    ELSE IF valid_ids = <<>> THEN RetrReturn(k, ids, "no_valid_ids", <<>>)
                    ELSE IF cand = <<>> THEN RetrReturn(k, ids, "no_candidate_docs", <<>>)
                    ELSE \E order \in Perms(Len(cand)) :
                            LET reranked == [i \in DOMAIN cand |->
                                                vector_metadata[cand[order[i]]].content_preview]
                                top == SelectTop(reranked, DocMap(vector_metadata, cand),
                                                 <<>>, MaxRelevantPapers)
                                found == WithPaperDetails(papers, top)
                            IN  RetrReturn(k, ids, "reranked",
                                           [i \in DOMAIN found |-> found[i].source_id])
    /\ UNCHANGED NotRetr

NextRetr == RetrieveLocalContext

SpecRetr == InitQuery /\ [][NextRetr]_vars

\* the search returned id, its VectorMetadata row has a content_preview and its
\* paper has a row
UsableId(id) ==
    /\ id >= 0
    /\ id \in DOMAIN vector_metadata
    /\ vector_metadata[id].content_preview # ""
    /\ PaperRows(papers, vector_metadata[id].source_id) # {}

\* C37: for every configured K >= 1, a search that returned at least one id >= 0
\* (0 included) whose VectorMetadata row has a content_preview and whose paper exists
\* is followed by reranking and the return of at least one source paper.
C37_UsableIdGivesSourcePaper ==
    (/\ lr.pc = "done"
     /\ \E i \in DOMAIN lr.retrieved_ids : UsableId(lr.retrieved_ids[i])) =>
        /\ lr.branch = "reranked"
        /\ lr.source_papers # <<>>

====
